---- MODULE Spec2Model ----
(***************************************************************************)
(* quillyourdream: the rebuild orchestrator (server/rebuild.ts) and the    *)
(* admin content API over the NeDB / MongoDB document store                *)
(* (server/routes.ts, server/db.ts, server/nedb.ts, server/auth.ts).       *)
(*                                                                         *)
(* Seven specifications share the module:                                  *)
(*   SpecRebuild - triggerRebuild invocations, the clock, the cleanup      *)
(*                 timers and the three directories under dist/            *)
(*   SpecRebuildLive - SpecRebuild with every awaited step completing      *)
(*   SpecStatus  - getRebuildStatus read between the steps of rebuilds     *)
(*   SpecQuery   - the NeDBQuery builder: find, sort, limit, exec          *)
(*   SpecStore   - the admin HTTP handlers over the five collections       *)
(*   SpecConnect - the process start: connectDB, initNeDB, the fallback    *)
(*   SpecRelated - the related-artworks query over a catalogue             *)
(***************************************************************************)
EXTENDS Integers, Sequences, FiniteSets, TLC

VARIABLES
    \* ---- rebuild orchestrator (module-level state of rebuild.ts)
    isRebuilding,      \* let isRebuilding
    lastRebuildTime,   \* let lastRebuildTime (ms, 0 = never)
    nodeEnv,           \* process.env.NODE_ENV
    now,               \* Date.now() (ms)
    fs,                \* dist/public, dist/public.new, dist/public.old
    rpc,               \* position of every triggerRebuild invocation
    rres,              \* what every invocation returned
    rloc,              \* locals of every invocation: publicExists, swapSuccessful, swapError
    timers,            \* pending setTimeout(cleanup, 5000) callbacks (due times)
    gen,               \* number of trees produced so far (names the content)
    rhist,             \* per invocation: live tree at entry, whether it renamed/removed live
    \* ---- document store and HTTP layer
    usingNeDB,         \* let usingNeDB (db.ts)
    users, artworks, faqs, artist, settings,   \* the five collections, insertion order
    freeKeys,          \* native keys the backend has not handed out yet
    req,               \* the request each browser session has in flight
    last,              \* the latest answer the server sent
    sessions,          \* session id -> serialized user _id (passport.serializeUser)
    scenario,          \* which endpoints the clients of this behaviour call
    ops,               \* admin API requests received so far
    created,           \* per collection: the _ids of records created through the admin API
    \* ---- process start (db.ts, nedb.ts)
    USE_NEDB,          \* process.env.USE_NEDB
    isNeDBInitialized, \* let isNeDBInitialized (nedb.ts)
    readyState,        \* mongoose.connection.readyState (0 disconnected, 1 connected)
    cpc,               \* position of connectDB
    cloc,              \* locals of connectDB / initNeDB: the catch it runs under, hasExistingData, hasAdminUser
    starts,            \* process starts so far
    chist,             \* this process: mongoose.connect attempts and initNeDB calls made
    \* ---- GET /api/artworks/related/:slug (routes.ts)
    related,           \* the handler's frame: position, req.params.slug, currentArtwork, related
    \* ---- GET /api/admin/rebuild/status (routes.ts)
    status,            \* the latest answer of getRebuildStatus()
    \* ---- NeDBQuery (nedb.ts)
    query              \* a query under construction: sortObj, limitNum, the calls chained, the result

rvars == <<isRebuilding, lastRebuildTime, nodeEnv, now, fs, rpc, rres, rloc, timers, gen, rhist>>
svars == <<usingNeDB, users, artworks, faqs, artist, settings, freeKeys, req, last, sessions, scenario,
          ops, created>>
bvars == <<USE_NEDB, isNeDBInitialized, readyState, cpc, cloc, starts, chist>>
qvars == <<related, status, query>>
vars  == <<rvars, svars, bvars, qvars>>

(***************************************************************************)
(* Bounds                                                                  *)
(***************************************************************************)
MaxCalls == 2        \* concurrent triggerRebuild invocations
MaxGen   == 5        \* trees the toolchain / the operator may produce
MaxTicks == 6        \* clock ticks explored
MaxSessions == 2     \* browser sessions, each with at most one request in flight
MaxOps   == 3        \* admin API requests explored per behaviour
TickMs   == 2500     \* length of one clock tick in ms

(***************************************************************************)
(* Program constants                                                       *)
(***************************************************************************)
REBUILD_COOLDOWN == 10000
CLEANUP_DELAY    == 5000

Calls == 1..MaxCalls
\* Date.now() is far beyond the cooldown when the process starts
StartTime == 2 * REBUILD_COOLDOWN
MaxTime   == StartTime + MaxTicks * TickMs

(***************************************************************************)
(* The file system under dist/                                             *)
(***************************************************************************)
NoDir == [assets |-> -1, pages |-> -1]
\* a directory tree: the generation of its compiled assets and of its
\* prerendered pages; 0 = that part is torn (partly written)
Tree(a, p) == [assets |-> a, pages |-> p]
Built(g)   == Tree(g, g)
Exists(path) == fs[path] # NoDir
Complete(t)  == t # NoDir /\ t.assets > 0 /\ t.assets = t.pages

publicDir     == "public"
tempPublicDir == "public.new"
oldPublicDir  == "public.old"
Paths == {publicDir, tempPublicDir, oldPublicDir}

\* Math.ceil(a / b) for a > 0, b > 0
Ceil(a, b) == (a + b - 1) \div b

NoResult == [success |-> FALSE, kind |-> "none", wait |-> 0]
Result(ok, kind, wait) == [success |-> ok, kind |-> kind, wait |-> wait]
NoLocals == [publicExists |-> FALSE, swapSuccessful |-> FALSE]
NoHist   == [entered |-> FALSE, at |-> 0, pre |-> NoDir, touchedLive |-> FALSE,
             buildFailed |-> FALSE, backedUp |-> FALSE, intoLiveFailed |-> FALSE,
             rolledBack |-> FALSE]

\* mutant: the failure is returned without the finally block
ReturnFailureNoFinally(c, kind) ==
    /\ rres' = [rres EXCEPT ![c] = Result(FALSE, kind, 0)]
    /\ rpc' = [rpc EXCEPT ![c] = "returned"]
    /\ isRebuilding' = isRebuilding
\* the catch (error) / finally of triggerRebuild: return failure, clear the flag
ReturnFailure(c, kind) ==
    /\ rres' = [rres EXCEPT ![c] = Result(FALSE, kind, 0)]
    /\ rpc' = [rpc EXCEPT ![c] = "returned"]
    /\ isRebuilding' = FALSE

(***************************************************************************)
(* Documents, sessions and requests                                        *)
(***************************************************************************)
Colls == {"users", "artworks", "faqs", "artist", "settings"}
Sess  == 1..MaxSessions
NoKey == "none"
adminEmail == "admin@quillyourdream.com"
Emails == {adminEmail, "ann@example.com"}
Roles  == {"user", "admin"}

NoUser == [_id |-> NoKey, email |-> "", role |-> ""]
NoBody == [f \in {} |-> 0]
NoReq  == [pc |-> "idle", op |-> "none", user |-> NoUser, n |-> 0, body |-> NoBody,
           target |-> NoKey]
NoAnswer == [seq |-> 0, sess |-> 0, op |-> "none", user |-> NoUser, n |-> 0, body |-> NoBody,
             resp |-> ""]

\* lastRebuildTime: null in the status answer
NullTime == <<>>
\* new Date(t).toISOString(): the instant t as a string
ToISOString(t) == <<t>>
\* no status has been asked for
NoStatus == [isRebuilding |-> FALSE, lastRebuildTime |-> NullTime, canRebuild |-> FALSE]

\* sortObj / limitNum of a NeDBQuery that were not set: null
NoSort  == 0
NoLimit == 0 - 1
\* no query is under construction
NoQuery == [pc |-> "idle", sortObj |-> NoSort, limitNum |-> NoLimit, calls |-> <<>>, docs |-> <<>>]

\* no request for related artworks has been received
NoRelated == [pc |-> "idle", slug |-> "", current |-> NoKey, docs |-> {}, resp |-> ""]

\* { ...a, ...b }
Merge(a, b) == [f \in DOMAIN a \cup DOMAIN b |-> IF f \in DOMAIN b THEN b[f] ELSE a[f]]
\* the document without field f
Without(d, f) == [g \in DOMAIN d \ {f} |-> d[g]]

\* passport.deserializeUser: User.findOne({ _id: id }), NoUser for done(null, false)
deserializeUser(s) ==
    IF \E u \in users : u._id = sessions[s]
    THEN CHOOSE u \in users : u._id = sessions[s]
    ELSE NoUser
\* mutant: the middleware lets every request through
isAdminAlways(u) == TRUE
\* isAdmin: req.isAuthenticated() && req.user.role === 'admin'
isAdmin(u) == u # NoUser /\ u.role = "admin"

(***************************************************************************)
(* Backend selection (db.ts)                                               *)
(***************************************************************************)
\* process.env.USE_NEDB: not set, or the string the operator wrote
Unset == "<unset>"
EnvValues == {Unset, "true", "false", "FALSE", "0", ""}
\* mutant: every falsy-looking value selects MongoDB
useMongoDBLoose(v) == v \in {"false", "FALSE", "0", ""}
\* const useMongoDB = process.env.USE_NEDB === 'false'
useMongoDB(v) == v = "false"

NoConnLocals == [fallback |-> FALSE, hasExistingData |-> FALSE, hasAdminUser |-> FALSE]
NoConnHist   == [mongoAttempts |-> 0, initCalls |-> 0]

\* the process is up: connectDB returned with the backend nedb selected
BootDone(nedb) ==
    /\ USE_NEDB = IF nedb THEN Unset ELSE "false"
    /\ isNeDBInitialized = nedb
    /\ readyState = IF nedb THEN 0 ELSE 1
    /\ cpc = "returned"
    /\ cloc = NoConnLocals
    /\ starts = 1
    /\ chist = IF nedb THEN [mongoAttempts |-> 0, initCalls |-> 1]
                       ELSE [mongoAttempts |-> 1, initCalls |-> 0]

(***************************************************************************)
(* Identity reconciliation (routes.ts)                                     *)
(***************************************************************************)
\* the native keys the backends hand out, by name
Keys == {"k1", "k2", "k3"}
\* the 16 characters of a NeDB _id (char codes)
NeDBChars(k) ==
    CASE k = "k1" -> <<97, 66, 51, 100, 69, 53, 103, 72, 55, 106, 75, 57, 109, 78, 49, 112>>
      [] k = "k2" -> <<90, 120, 56, 81, 119, 50, 76, 114, 54, 84, 110, 52, 86, 98, 48, 89>>
      [] k = "k3" -> <<113, 49, 87, 50, 101, 51, 82, 52, 116, 53, 89, 54, 117, 55, 73, 56>>
\* ObjectId.toString(): 24 hex characters (char codes)
MongoChars(k) ==
    CASE k = "k1" -> <<53, 48, 55, 102, 49, 102, 55, 55, 98, 99, 102, 56, 54, 99, 100, 55,
                       57, 57, 52, 51, 57, 48, 49, 49>>
      [] k = "k2" -> <<54, 53, 97, 49, 98, 50, 99, 51, 100, 52, 101, 53, 102, 54, 48, 55,
                       49, 56, 50, 57, 51, 97, 52, 98>>
      [] k = "k3" -> <<54, 52, 102, 48, 99, 48, 102, 102, 101, 101, 48, 100, 100, 98, 97, 49,
                       49, 99, 97, 55, 102, 48, 48, 100>>

Half == 65536
\* ToInt32 of 31 * h + ch, which is what (hash << 5) - hash + char; hash & hash
\* leaves; computed on 16-bit halves so that no intermediate value overflows
HashStep(h, ch) ==
    LET lo  == h % Half
        hi  == (h \div Half) % Half
        t   == 31 * lo + ch
        lo2 == t % Half
        hi2 == (31 * hi + (t \div Half)) % Half
    IN  IF hi2 >= Half \div 2 THEN (hi2 - Half) * Half + lo2 ELSE hi2 * Half + lo2

\* the loop of hashStringToNumber: hash[i] is the accumulator after i characters
SignedHash(str) ==
    LET hash[i \in 0..Len(str)] ==
          IF i = 0 THEN 0
          ELSE LET prev == hash[i - 1]
               IN  IF prev \in Int THEN HashStep(prev, str[i]) ELSE 0
    IN  hash[Len(str)]

\* Math.abs(hash)
hashStringToNumber(str) == LET h == SignedHash(str) IN IF h < 0 THEN 0 - h ELSE h

\* hashStringToNumber(doc._id) on NeDB, hashStringToNumber(doc._id.toString())
\* on MongoDB, for every key
NeDBHash  == [k \in Keys |-> hashStringToNumber(NeDBChars(k))]
MongoHash == [k \in Keys |-> hashStringToNumber(MongoChars(k))]
\* the numeric id the active backend's routes derive from the key
HashOf(k) == IF usingNeDB THEN NeDBHash[k] ELSE MongoHash[k]

\* normalizeId(doc).id: the numeric id a client sees for a stored document
\* (a stored id that is truthy wins; on MongoDB the schema keeps no id field)
Has(d, f) == f \in DOMAIN d
normalizeId(d) ==
    IF Has(d, "id") /\ d.id # 0 THEN d.id ELSE HashOf(d._id)

(***************************************************************************)
(* triggerRebuild, one action per stretch of code between two awaits       *)
(***************************************************************************)
ActivePcs == {"vite", "prerender", "accessNew", "accessOld", "rmOld", "accessPub",
              "renamePub", "renameNew", "rbAccess", "rbRename"}

\* triggerRebuild up to its first await, given the outcome of its two guards
\* (busy: if (isRebuilding); cooling: if (now - lastRebuildTime < REBUILD_COOLDOWN)),
\* then the NODE_ENV guard, then isRebuilding = true; lastRebuildTime = now
TriggerWith(c, busy, cooling) ==
    /\ rpc[c] = "idle"
    /\ IF busy
       THEN /\ rres' = [rres EXCEPT ![c] = Result(FALSE, "inProgress", 0)]
            /\ rpc' = [rpc EXCEPT ![c] = "returned"]
            /\ UNCHANGED <<isRebuilding, lastRebuildTime, rhist>>
       ELSE IF cooling
       THEN /\ rres' = [rres EXCEPT ![c] = Result(FALSE, "cooldown",
                            Ceil(REBUILD_COOLDOWN - (now - lastRebuildTime), 1000))]
            /\ rpc' = [rpc EXCEPT ![c] = "returned"]
            /\ UNCHANGED <<isRebuilding, lastRebuildTime, rhist>>
       ELSE IF nodeEnv # "production"
       THEN /\ rres' = [rres EXCEPT ![c] = Result(FALSE, "devMode", 0)]
            /\ rpc' = [rpc EXCEPT ![c] = "returned"]
            /\ UNCHANGED <<isRebuilding, lastRebuildTime, rhist>>
       ELSE /\ isRebuilding' = TRUE
            /\ lastRebuildTime' = now
            /\ rpc' = [rpc EXCEPT ![c] = "vite"]
            /\ rhist' = [rhist EXCEPT ![c] = [NoHist EXCEPT !.entered = TRUE, !.at = now, !.pre = fs[publicDir]]]
            /\ UNCHANGED rres
    /\ UNCHANGED <<nodeEnv, now, fs, rloc, timers, gen, svars, bvars, qvars>>

\* mutant: the isRebuilding guard is missing
TriggerNoGuard(c) == TriggerWith(c, FALSE, now - lastRebuildTime < REBUILD_COOLDOWN)
\* mutant: the cooldown guard is missing
TriggerNoCooldown(c) == TriggerWith(c, isRebuilding, FALSE)

\* mutant: a request rejected for the cooldown restarts the cooldown
TriggerExtendsCooldown(c) ==
    IF ~isRebuilding /\ now - lastRebuildTime < REBUILD_COOLDOWN
    THEN /\ rpc[c] = "idle"
         /\ rres' = [rres EXCEPT ![c] = Result(FALSE, "cooldown",
                         Ceil(REBUILD_COOLDOWN - (now - lastRebuildTime), 1000))]
         /\ rpc' = [rpc EXCEPT ![c] = "returned"]
         /\ lastRebuildTime' = now
         /\ UNCHANGED <<isRebuilding, rhist, nodeEnv, now, fs, rloc, timers, gen, svars, bvars, qvars>>
    ELSE TriggerWith(c, isRebuilding, now - lastRebuildTime < REBUILD_COOLDOWN)

Trigger(c) == TriggerWith(c, isRebuilding, now - lastRebuildTime < REBUILD_COOLDOWN)

\* the tree `vite build` leaves at its output directory, dist/public:
\* new assets next to whatever pages were there
ViteOutput(t, g) == Tree(g, IF t = NoDir THEN 0 ELSE t.pages)
\* the tree the prerenderer leaves at dist/public: pages for the assets there
PrerenderOutput(t) == Tree(t.assets, t.assets)

\* await execAsync("vite build"): exit 0, or a non-zero exit before or after
\* the compiler started to write
ViteDone(c) ==
    /\ rpc[c] = "vite"
    /\ \E outcome \in {"ok", "failClean", "failPartial"} :
         CASE outcome = "ok" ->
                /\ gen < MaxGen
                /\ gen' = gen + 1
                /\ fs' = [fs EXCEPT ![publicDir] = ViteOutput(@, gen + 1)]
                /\ rpc' = [rpc EXCEPT ![c] = "prerender"]
                /\ UNCHANGED <<rres, isRebuilding, rhist>>
           [] outcome = "failClean" ->
                /\ ReturnFailure(c, "buildFailed")
                /\ rhist' = [rhist EXCEPT ![c].buildFailed = TRUE]
                /\ UNCHANGED <<fs, gen>>
           [] outcome = "failPartial" ->
                /\ fs' = [fs EXCEPT ![publicDir] = ViteOutput(@, 0)]
                /\ ReturnFailure(c, "buildFailed")
                /\ rhist' = [rhist EXCEPT ![c].buildFailed = TRUE]
                /\ UNCHANGED gen
    /\ UNCHANGED <<lastRebuildTime, nodeEnv, now, rloc, timers, svars, bvars, qvars>>

\* await execAsync("tsx scripts/prerender-ssr.tsx")
PrerenderDone(c) ==
    /\ rpc[c] = "prerender"
    /\ \E outcome \in {"ok", "failClean", "failPartial"} :
         CASE outcome = "ok" ->
                /\ Exists(publicDir)
                /\ fs' = [fs EXCEPT ![publicDir] = PrerenderOutput(@)]
                /\ rpc' = [rpc EXCEPT ![c] = "accessNew"]
                /\ UNCHANGED <<rres, isRebuilding, rhist>>
           [] outcome = "failClean" ->
                /\ ReturnFailure(c, "buildFailed")
                /\ rhist' = [rhist EXCEPT ![c].buildFailed = TRUE]
                /\ UNCHANGED fs
           [] outcome = "failPartial" ->
                /\ Exists(publicDir)
                /\ fs' = [fs EXCEPT ![publicDir] = Tree(@.assets, 0)]
                /\ ReturnFailure(c, "buildFailed")
                /\ rhist' = [rhist EXCEPT ![c].buildFailed = TRUE]
    /\ UNCHANGED <<lastRebuildTime, nodeEnv, now, rloc, timers, gen, svars, bvars, qvars>>

\* await access(tempPublicDir), else throw "New build directory not found"
AccessNew(c) ==
    /\ rpc[c] = "accessNew"
    /\ IF Exists(tempPublicDir)
       THEN /\ rpc' = [rpc EXCEPT ![c] = "accessOld"]
            /\ UNCHANGED <<rres, isRebuilding, rhist>>
       ELSE /\ ReturnFailure(c, "noNewBuild")
            /\ rhist' = [rhist EXCEPT ![c].buildFailed = TRUE]
    /\ UNCHANGED <<lastRebuildTime, nodeEnv, now, fs, rloc, timers, gen, svars, bvars, qvars>>

\* await access(oldPublicDir) of "Clean up old backup if it exists"
AccessOld(c) ==
    /\ rpc[c] = "accessOld"
    /\ rpc' = [rpc EXCEPT ![c] = IF Exists(oldPublicDir) THEN "rmOld" ELSE "accessPub"]
    /\ UNCHANGED <<isRebuilding, lastRebuildTime, nodeEnv, now, fs, rres, rloc, timers, gen, rhist, svars, bvars, qvars>>

\* await rm(oldPublicDir, {recursive, force}); an error is swallowed
RmOld(c) ==
    /\ rpc[c] = "rmOld"
    /\ \E ok \in BOOLEAN :
         fs' = IF ok THEN [fs EXCEPT ![oldPublicDir] = NoDir] ELSE fs
    /\ rpc' = [rpc EXCEPT ![c] = "accessPub"]
    /\ UNCHANGED <<isRebuilding, lastRebuildTime, nodeEnv, now, rres, rloc, timers, gen, rhist, svars, bvars, qvars>>

\* const publicExists = await access(publicDir).then(() => true).catch(() => false)
AccessPub(c) ==
    /\ rpc[c] = "accessPub"
    /\ rloc' = [rloc EXCEPT ![c].publicExists = Exists(publicDir)]
    /\ rpc' = [rpc EXCEPT ![c] = IF Exists(publicDir) THEN "renamePub" ELSE "renameNew"]
    /\ UNCHANGED <<isRebuilding, lastRebuildTime, nodeEnv, now, fs, rres, timers, gen, rhist, svars, bvars, qvars>>

\* fs.rename(from, to) can succeed only when from exists and to does not
\* (a non-empty directory is never replaced)
CanRename(from, to) == Exists(from) /\ ~Exists(to)
Renamed(from, to) == [fs EXCEPT ![to] = fs[from], ![from] = NoDir]

\* await rename(publicDir, oldPublicDir), only reached if (publicExists)
RenamePub(c) ==
    /\ rpc[c] = "renamePub"
    /\ \E ok \in BOOLEAN :
         IF ok
         THEN /\ CanRename(publicDir, oldPublicDir)
              /\ fs' = Renamed(publicDir, oldPublicDir)
              /\ rpc' = [rpc EXCEPT ![c] = "renameNew"]
              /\ rhist' = [rhist EXCEPT ![c].touchedLive = TRUE, ![c].backedUp = TRUE]
         ELSE \* throws: catch (swapError)
              /\ rpc' = [rpc EXCEPT ![c] = "rbAccess"]
              /\ UNCHANGED <<fs, rhist>>
    /\ UNCHANGED <<isRebuilding, lastRebuildTime, nodeEnv, now, rres, rloc, timers, gen, svars, bvars, qvars>>

\* await rename(tempPublicDir, publicDir); swapSuccessful = true;
\* if (publicExists) setTimeout(cleanup, 5000); return success; finally
RenameNew(c) ==
    /\ rpc[c] = "renameNew"
    /\ \E ok \in BOOLEAN :
         IF ok
         THEN /\ CanRename(tempPublicDir, publicDir)
              /\ fs' = Renamed(tempPublicDir, publicDir)
              /\ rloc' = [rloc EXCEPT ![c].swapSuccessful = TRUE]
              /\ timers' = IF rloc[c].publicExists
                           THEN Append(timers, now + CLEANUP_DELAY) ELSE timers
              /\ rres' = [rres EXCEPT ![c] = Result(TRUE, "rebuilt", 0)]
              /\ rpc' = [rpc EXCEPT ![c] = "returned"]
              /\ isRebuilding' = FALSE
              /\ rhist' = [rhist EXCEPT ![c].touchedLive = TRUE]
         ELSE \* throws: catch (swapError), swapSuccessful is false
              /\ rpc' = [rpc EXCEPT ![c] = "rbAccess"]
              /\ rhist' = [rhist EXCEPT ![c].intoLiveFailed = TRUE]
              /\ UNCHANGED <<fs, rloc, timers, rres, isRebuilding>>
    /\ UNCHANGED <<lastRebuildTime, nodeEnv, now, gen, svars, bvars, qvars>>

\* rollback: const oldExists = await access(oldPublicDir)...; without a backup
\* throw new Error(`Swap failed: ...`)
RbAccess(c) ==
    /\ rpc[c] = "rbAccess"
    /\ IF Exists(oldPublicDir)
       THEN /\ rpc' = [rpc EXCEPT ![c] = "rbRename"]
            /\ UNCHANGED <<rres, isRebuilding>>
       ELSE ReturnFailure(c, "swapFailed")
    /\ UNCHANGED <<lastRebuildTime, nodeEnv, now, fs, rloc, timers, gen, rhist, svars, bvars, qvars>>

\* rollback: await rename(oldPublicDir, publicDir); then "Swap failed", or
\* "Swap and rollback both failed" when the rename throws
RbRename(c) ==
    /\ rpc[c] = "rbRename"
    /\ \E ok \in BOOLEAN :
         IF ok
         THEN /\ CanRename(oldPublicDir, publicDir)
              /\ fs' = Renamed(oldPublicDir, publicDir)
              /\ ReturnFailure(c, "swapFailed")
              /\ rhist' = [rhist EXCEPT ![c].touchedLive = TRUE, ![c].rolledBack = TRUE]
         ELSE /\ ReturnFailure(c, "swapAndRollbackFailed")
              /\ UNCHANGED <<fs, rhist>>
    /\ UNCHANGED <<lastRebuildTime, nodeEnv, now, rloc, timers, gen, svars, bvars, qvars>>

RemoveAt(s, i) == [j \in 1..(Len(s) - 1) |-> IF j < i THEN s[j] ELSE s[j + 1]]

\* the setTimeout callback: rm(oldPublicDir, {recursive, force}), errors ignored
CleanupFire ==
    /\ \E i \in 1..Len(timers) :
         /\ now >= timers[i]
         /\ timers' = RemoveAt(timers, i)
         /\ \E ok \in BOOLEAN :
              fs' = IF ok THEN [fs EXCEPT ![oldPublicDir] = NoDir] ELSE fs
    /\ UNCHANGED <<isRebuilding, lastRebuildTime, nodeEnv, now, rpc, rres, rloc, gen, rhist, svars, bvars, qvars>>

\* time passes
Tick ==
    /\ now < MaxTime
    /\ now' = now + TickMs
    /\ UNCHANGED <<isRebuilding, lastRebuildTime, nodeEnv, fs, rpc, rres, rloc, timers, gen, rhist, svars, bvars, qvars>>

\* the admin client reads the answer; the slot is free for the next POST
NextCall(c) ==
    /\ rpc[c] = "returned"
    /\ rpc' = [rpc EXCEPT ![c] = "idle"]
    /\ rres' = [rres EXCEPT ![c] = NoResult]
    /\ rloc' = [rloc EXCEPT ![c] = NoLocals]
    /\ rhist' = [rhist EXCEPT ![c] = NoHist]
    /\ UNCHANGED <<isRebuilding, lastRebuildTime, nodeEnv, now, fs, timers, gen, svars, bvars, qvars>>

\* the environment: a finished build appears at dist/public.new (nothing in
\* triggerRebuild creates that directory, it only tests for it)
StageNewBuild ==
    /\ ~Exists(tempPublicDir)
    /\ gen < MaxGen
    /\ gen' = gen + 1
    /\ fs' = [fs EXCEPT ![tempPublicDir] = Built(gen + 1)]
    /\ UNCHANGED <<isRebuilding, lastRebuildTime, nodeEnv, now, rpc, rres, rloc, timers, rhist, svars, bvars, qvars>>

\* the store as the rebuild specification leaves it: untouched
StoreIdle ==
    /\ usingNeDB = TRUE
    /\ users = {} /\ artworks = {} /\ faqs = {} /\ artist = {} /\ settings = {}
    /\ freeKeys = [c \in Colls |-> Keys]
    /\ req = [x \in Sess |-> NoReq]
    /\ last = NoAnswer
    /\ sessions = [x \in Sess |-> NoKey]
    /\ scenario = "rebuild"
    /\ ops = 0
    /\ created = [c \in Colls |-> {}]
    /\ BootDone(TRUE)
    /\ related = NoRelated
    /\ status = NoStatus
    /\ query = NoQuery

InitRebuild ==
    /\ isRebuilding = FALSE
    /\ lastRebuildTime = 0
    /\ nodeEnv \in {"production", "development"}
    /\ now = StartTime
    /\ fs = [p \in Paths |-> IF p = publicDir THEN Built(1) ELSE NoDir]
    /\ rpc = [c \in Calls |-> "idle"]
    /\ rres = [c \in Calls |-> NoResult]
    /\ rloc = [c \in Calls |-> NoLocals]
    /\ timers = <<>>
    /\ gen = 1
    /\ rhist = [c \in Calls |-> NoHist]
    /\ StoreIdle

NextRebuild ==
    \/ \E c \in Calls : Trigger(c)
    \/ \E c \in Calls : ViteDone(c)
    \/ \E c \in Calls : PrerenderDone(c)
    \/ \E c \in Calls : AccessNew(c)
    \/ \E c \in Calls : AccessOld(c)
    \/ \E c \in Calls : RmOld(c)
    \/ \E c \in Calls : AccessPub(c)
    \/ \E c \in Calls : RenamePub(c)
    \/ \E c \in Calls : RenameNew(c)
    \/ \E c \in Calls : RbAccess(c)
    \/ \E c \in Calls : RbRename(c)
    \/ \E c \in Calls : NextCall(c)
    \/ CleanupFire
    \/ Tick
    \/ StageNewBuild

SpecRebuild == InitRebuild /\ [][NextRebuild]_vars

(***************************************************************************)
(* Claims about the rebuild orchestrator (checked under SpecRebuild)       *)
(***************************************************************************)
Running == {c \in Calls : rpc[c] \in ActivePcs}
\* invocation c leaves triggerRebuild in this step
Returns(c) == rpc[c] # "returned" /\ rpc'[c] = "returned"
\* invocation c is called in this step
Called(c) == rpc[c] = "idle" /\ rpc'[c] # "idle"

\* C1: at most one invocation is ever between entering Building and its
\* return, and an invocation called while another one is there returns
\* "already in progress" at once, writes nothing to dist/ and leaves the
\* orchestrator's flag and timestamp alone.
C1_MutualExclusion ==
    /\ [](Cardinality(Running) <= 1)
    /\ [][\A c \in Calls : (Called(c) /\ Running # {}) =>
            /\ rpc'[c] = "returned"
            /\ rres'[c] = Result(FALSE, "inProgress", 0)
            /\ fs' = fs /\ timers' = timers
            /\ isRebuilding' = isRebuilding /\ lastRebuildTime' = lastRebuildTime]_vars

C1_Witness ==
    \E c, d \in Calls : rpc[c] \in {"renamePub", "renameNew"} /\ rpc[d] = "returned"
                        /\ rres[d].kind = "inProgress"

\* C2: from the moment a rebuild is entered, dist/public always exists and
\* holds a complete tree (the old one or the new one).
C2_LivePathAlwaysComplete ==
    (\E c \in Calls : rhist[c].entered) => Complete(fs[publicDir])

\* C3: when an invocation returns after its rename of the new build into the
\* live path failed although the live directory had been renamed to the
\* backup path (and no other file operation was made to fail), dist/public
\* holds the tree it held when the rebuild was entered and isRebuilding is
\* false.
C3_SwapRollback ==
    [][\A c \in Calls : (/\ Returns(c) /\ rhist[c].backedUp /\ rhist[c].intoLiveFailed
                          /\ rres'[c].kind # "swapAndRollbackFailed") =>
            /\ fs'[publicDir] = rhist[c].pre
            /\ isRebuilding' = FALSE]_vars

\* C4: when an invocation returns because a build step failed (vite build,
\* the prerenderer, or the missing dist/public.new), dist/public holds what
\* it held when the rebuild was entered and was neither renamed nor removed.
C4_BuildFailureIsolation ==
    [][\A c \in Calls : (Returns(c) /\ rhist'[c].buildFailed) =>
            /\ fs'[publicDir] = rhist[c].pre
            /\ ~rhist'[c].touchedLive]_vars

\* C5: a call made while no rebuild runs and less than REBUILD_COOLDOWN ms
\* after an earlier attempt entered Building returns the cooldown rejection
\* with a remaining time of 0 s or more, and starts nothing.
C5_Cooldown ==
    [][\A c \in Calls :
         (/\ Called(c)
          /\ Running = {}
          /\ \E d \in Calls : rhist[d].entered /\ now - rhist[d].at < REBUILD_COOLDOWN) =>
            /\ rpc'[c] = "returned"
            /\ rres'[c].kind = "cooldown" /\ ~rres'[c].success
            /\ rres'[c].wait >= 0
            /\ rres'[c].wait * 1000 >= REBUILD_COOLDOWN - (now - lastRebuildTime)
            /\ fs' = fs /\ isRebuilding' = FALSE /\ lastRebuildTime' = lastRebuildTime]_vars

C5_Witness ==
    \E c, d \in Calls : /\ rpc[c] = "returned" /\ rres[c].kind = "cooldown" /\ rres[c].wait > 0
                        /\ rpc[d] = "returned" /\ rres[d].kind = "rebuilt"
                        /\ ~isRebuilding

(***************************************************************************)
(* The document store behind the models of db.ts                           *)
(***************************************************************************)
\* parseInt(req.params.id, 10) of a path parameter that is no numeral
NaN == -1

Titles    == {"Dawn", "Dusk"}
Slugs     == {"dawn", "dusk"}
Questions == {"Shipping?", "Returns?"}
Answers   == {"Yes", "No"}
Names     == {"Quill", "Ann"}
Hues      == {186, 200}

\* server/data/artworks.json, artist.json, faqs.json as initNeDB reads them
SampleArtwork == [id |-> 1, title |-> "Dawn", slug |-> "dawn"]
SampleArtist  == [name |-> "Quill"]
SampleFaq     == [id |-> 1, question |-> "Shipping?", answer |-> "Yes"]
\* the settings initNeDB inserts, and the defaults of siteSettingsSchema
DefaultSettings == [accentHue |-> 186, accentSaturation |-> 68, accentLightness |-> 45]
\* the admin user initNeDB / setupAuth insert
DefaultAdmin == [email |-> adminEmail, role |-> "admin"]

Coll(c) ==
    CASE c = "users" -> users [] c = "artworks" -> artworks [] c = "faqs" -> faqs
      [] c = "artist" -> artist [] c = "settings" -> settings

\* collection c becomes v, the other four keep their documents
SetColl(c, v) ==
    /\ users'    = IF c = "users" THEN v ELSE users
    /\ artworks' = IF c = "artworks" THEN v ELSE artworks
    /\ faqs'     = IF c = "faqs" THEN v ELSE faqs
    /\ artist'   = IF c = "artist" THEN v ELSE artist
    /\ settings' = IF c = "settings" THEN v ELSE settings

SameDocs == UNCHANGED <<users, artworks, faqs, artist, settings>>

\* the document as the backend stores it under the fresh key k
WithKey(doc, k) == Merge(doc, [_id |-> k])

\* the paths the Mongoose schemas declare unique
UniqueField(c) ==
    CASE c = "users" -> "email" [] c = "artworks" -> "slug" [] c = "faqs" -> "question"
      [] OTHER -> NoKey
\* the unique index refuses doc next to the documents of C (MongoDB only;
\* the NeDB datastores are created without an index)
Duplicate(c, C, doc) ==
    /\ ~usingNeDB
    /\ UniqueField(c) # NoKey
    /\ \E e \in C : e._id # doc._id /\ e[UniqueField(c)] = doc[UniqueField(c)]

\* the defaults a Mongoose schema fills in on create
SchemaDefaults(c) == IF c = "settings" THEN DefaultSettings ELSE NoBody

\* JSON values of a settings field that are no numbers: null, and a string
\* that is no numeral (both encoded below every number a client sends)
JsonNull   == 0 - 1000
NotNumeric == 0 - 2000
\* values a PUT /api/admin/settings can carry beyond the ones the form sends
BadHues == {400, JsonNull, NotNumeric}
\* siteSettingsSchema: { type: Number, min: 0, max: ... } for the three paths
SettingsMin == 0
SettingsMax == [accentHue |-> 360, accentSaturation |-> 100, accentLightness |-> 100]
\* the Number cast and the min / max validators of path f accept v: the cast
\* fails on a string that is no numeral, the validators run on numbers only
\* and pass null
PathValid(f, v) ==
    \/ v = JsonNull
    \/ v # NotNumeric /\ SettingsMin <= v /\ v <= SettingsMax[f]
\* Mongoose validation of doc on create / save (the other schemas' required
\* paths are always sent by the clients modelled here)
SchemaValid(c, doc) ==
    c = "settings" => \A f \in DOMAIN doc \cap DOMAIN SettingsMax : PathValid(f, doc[f])

\* what a Mongoose update keeps of req.body: the schemas are strict and
\* declare no id path, so an id field is dropped
SchemaCast(body) == IF Has(body, "id") THEN Without(body, "id") ELSE body

\* the documents findOne({ [f]: v }) can return
Matching(C, f, v) == {d \in C : Has(d, f) /\ d[f] = v}
\* all.find(d => hashStringToNumber(d._id.toString()) === n)
ByHash(C, n) == {d \in C : HashOf(d._id) = n}

\* the documents a content route resolves the path id n to:
\* NeDB by the stored id field, MongoDB by the hash of _id
LookupAny(c, n) == Coll(c)
Lookup(c, n) == IF usingNeDB THEN Matching(Coll(c), "id", n) ELSE ByHash(Coll(c), n)

\* the path ids clients send: no numeral, the id of the sample data, and the
\* numeric ids of records they have seen or will see
PathIds == {NaN, 1} \cup {HashOf(k) : k \in Keys}

\* "Prevent deleting yourself": NeDB compares emails, MongoDB compares _id
IsOwnAccountNever(t, u) == FALSE
IsOwnAccount(t, u) == IF usingNeDB THEN t.email = u.email ELSE t._id = u._id

(***************************************************************************)
(* The HTTP layer: sessions and requests                                   *)
(***************************************************************************)
StoreScenarios == {"users", "artworks", "faqs", "singletons"}
\* ... and the behaviours whose clients call the rebuild trigger
ApiScenarios == StoreScenarios \cup {"trigger"}

\* a request arrives on session s, which has none in flight
Arrives(s, scs) ==
    /\ scenario \in scs
    /\ req[s].pc = "idle"
    /\ ops < MaxOps
    /\ ops' = ops + 1

\* the answer resp goes out for the request (op, n, body) of session s
Sent(s, op, user, n, body, resp) ==
    last' = [seq |-> last.seq + 1, sess |-> s, op |-> op, user |-> user, n |-> n,
             body |-> body, resp |-> resp]
\* a handler that answers in the step the request arrives in
Answer(s, op, n, body, resp) ==
    /\ Sent(s, op, deserializeUser(s), n, body, resp)
    /\ UNCHANGED req
\* the handler goes on after an await
Await(s, pc, op, n, body) ==
    /\ req' = [req EXCEPT ![s] = [pc |-> pc, op |-> op, user |-> deserializeUser(s), n |-> n,
                                  body |-> body, target |-> NoKey]]
    /\ UNCHANGED last
\* a handler that was waiting answers
Finish(s, n, resp) ==
    /\ Sent(s, req[s].op, req[s].user, n, req[s].body, resp)
    /\ req' = [req EXCEPT ![s] = NoReq]

Take(c, k)   == freeKeys' = [freeKeys EXCEPT ![c] = @ \ {k}]
Record(c, k) == created' = [created EXCEPT ![c] = @ \cup {k}]

\* POST /api/login with the right password for e
Login(s) ==
    /\ scenario \in ApiScenarios
    /\ \E u \in users : sessions' = [sessions EXCEPT ![s] = u._id]
    /\ UNCHANGED <<usingNeDB, users, artworks, faqs, artist, settings, freeKeys, req, last, scenario, ops, created, rvars, bvars, qvars>>

\* POST /api/logout
Logout(s) ==
    /\ scenario \in ApiScenarios
    /\ sessions[s] # NoKey
    /\ sessions' = [sessions EXCEPT ![s] = NoKey]
    /\ UNCHANGED <<usingNeDB, users, artworks, faqs, artist, settings, freeKeys, req, last, scenario, ops, created, rvars, bvars, qvars>>

(***************************************************************************)
(* User management routes, one action per stretch between two awaits       *)
(***************************************************************************)
\* POST /api/admin/users: isAdmin, insertUserSchema.safeParse, up to
\* await User.findOne({ email })
StartCreateUser(s) ==
    /\ Arrives(s, {"users"})
    /\ \E e \in Emails, role \in Roles, valid \in BOOLEAN :
         LET body == [email |-> e, role |-> role] IN
         IF ~isAdmin(deserializeUser(s)) THEN Answer(s, "createUser", 0, body, "403")
         ELSE IF ~valid THEN Answer(s, "createUser", 0, body, "400")
         ELSE Await(s, "check", "createUser", 0, body)
    /\ SameDocs
    /\ UNCHANGED <<usingNeDB, freeKeys, sessions, scenario, created, rvars, bvars, qvars>>

\* if (existingUser) return 400; else up to await User.create(...)
CheckCreateUser(s) ==
    /\ req[s].pc = "check"
    /\ IF Matching(users, "email", req[s].body.email) # {}
       THEN Finish(s, 0, "400:exists")
       ELSE req' = [req EXCEPT ![s].pc = "create"] /\ UNCHANGED last
    /\ SameDocs
    /\ UNCHANGED <<usingNeDB, freeKeys, sessions, scenario, ops, created, rvars, bvars, qvars>>

\* User.create resolves (or the unique index rejects it): 201 / 500
DoCreateUser(s) ==
    /\ req[s].pc = "create"
    /\ \E k \in freeKeys["users"] :
         LET doc == WithKey(req[s].body, k) IN
         IF Duplicate("users", users, doc)
         THEN /\ Finish(s, 0, "500")
              /\ SameDocs
              /\ UNCHANGED <<freeKeys, created>>
         ELSE /\ SetColl("users", users \cup {doc})
              /\ Take("users", k)
              /\ Record("users", k)
              /\ Finish(s, normalizeId(doc), "201")
    /\ UNCHANGED <<usingNeDB, sessions, scenario, ops, rvars, bvars, qvars>>

\* DELETE /api/admin/users/:id: isAdmin, parseInt, isNaN, up to await User.find()
StartDeleteUser(s) ==
    /\ Arrives(s, {"users"})
    /\ \E n \in PathIds :
         IF ~isAdmin(deserializeUser(s)) THEN Answer(s, "deleteUser", n, NoBody, "403")
         ELSE IF n = NaN THEN Answer(s, "deleteUser", n, NoBody, "400:invalid")
         ELSE Await(s, "find", "deleteUser", n, NoBody)
    /\ SameDocs
    /\ UNCHANGED <<usingNeDB, freeKeys, sessions, scenario, created, rvars, bvars, qvars>>

\* User.find() resolves: 404 without a target, 400 for the own account,
\* else up to await User.deleteOne / User.findByIdAndDelete
FindDeleteUser(s) ==
    /\ req[s].pc = "find"
    /\ LET T == ByHash(users, req[s].n) IN
         IF T = {} THEN Finish(s, req[s].n, "404")
         ELSE \E t \in T :
                IF IsOwnAccount(t, req[s].user) THEN Finish(s, req[s].n, "400:self")
                ELSE /\ req' = [req EXCEPT ![s].pc = "delete", ![s].target = t._id]
                     /\ UNCHANGED last
    /\ SameDocs
    /\ UNCHANGED <<usingNeDB, freeKeys, sessions, scenario, ops, created, rvars, bvars, qvars>>

\* the delete resolves, whatever it removed: res.json({ success: true })
DoDeleteUser(s) ==
    /\ req[s].pc = "delete"
    /\ SetColl("users", users \ Matching(users, "_id", req[s].target))
    /\ Finish(s, req[s].n, "200")
    /\ UNCHANGED <<usingNeDB, freeKeys, sessions, scenario, ops, created, rvars, bvars, qvars>>

(***************************************************************************)
(* Content routes (the handler as one step)                                *)
(***************************************************************************)
\* PATCH /api/admin/<c>/:id with path id n
PatchById(s, op, c, n, body) ==
    LET C == Coll(c) IN
    IF usingNeDB
    THEN \* findOne({ id }), updateOne({ id }, { ...existing, ...req.body })
         LET M == Lookup(c, n) IN
         IF M = {} THEN Answer(s, op, n, body, "404") /\ SameDocs
         ELSE \E d \in M, e \in M :
                LET updateData == Merge(d, body) IN
                IF updateData._id # e._id
                THEN Answer(s, op, n, body, "500") /\ SameDocs
                ELSE SetColl(c, (C \ {e}) \cup {updateData}) /\ Answer(s, op, n, body, "200")
    ELSE \* findByIdAndUpdate(req.body._id or the hash match, req.body)
         LET T == IF Has(body, "_id") THEN Matching(C, "_id", body._id) ELSE Lookup(c, n) IN
         IF T = {} THEN Answer(s, op, n, body, "404") /\ SameDocs
         ELSE \E t \in T :
                LET updated == Merge(t, SchemaCast(body)) IN
                IF Duplicate(c, C, updated)
                THEN Answer(s, op, n, body, "500") /\ SameDocs
                ELSE SetColl(c, (C \ {t}) \cup {updated}) /\ Answer(s, op, n, body, "200")

\* DELETE /api/admin/<c>/:id with path id n
DeleteById(s, op, c, n) ==
    LET T == Lookup(c, n) IN
    IF T = {} THEN Answer(s, op, n, NoBody, "404") /\ SameDocs
    ELSE \E t \in T : SetColl(c, Coll(c) \ {t}) /\ Answer(s, op, n, NoBody, "200")

\* the numeric ids a client puts into the id field of a body
BodyIds == {1}
\* the bodies the admin client sends with a PATCH (req.body is not validated):
\* one content field, alone, with the record's _id, or with an id field
PatchBodies(field, values) ==
    {[f \in {field} |-> v] : v \in values}
      \cup {Merge([f \in {field} |-> v], [_id |-> k]) : v \in values, k \in Keys}
      \cup {Merge([f \in {field} |-> v], [id |-> i]) : v \in values, i \in BodyIds}

\* artwork._id && !artwork.id
NeedsId(doc) == Has(doc, "_id") /\ ~(Has(doc, "id") /\ doc.id # 0)

\* POST /api/admin/artworks
CreateArtwork(s) ==
    /\ Arrives(s, {"artworks"})
    /\ \E t \in Titles, sl \in Slugs, valid \in BOOLEAN :
         LET body == [title |-> t, slug |-> sl] IN
         IF ~isAdmin(deserializeUser(s))
         THEN Answer(s, "createArtwork", 0, body, "403") /\ SameDocs /\ UNCHANGED <<freeKeys, created>>
         ELSE IF ~valid
         THEN Answer(s, "createArtwork", 0, body, "400") /\ SameDocs /\ UNCHANGED <<freeKeys, created>>
         ELSE \E k \in freeKeys["artworks"] :
                LET doc    == WithKey(body, k)
                    stored == IF usingNeDB /\ NeedsId(doc)
                              THEN Merge(doc, [id |-> HashOf(k)])
                              ELSE doc
                IN  IF Duplicate("artworks", artworks, doc)
                    THEN Answer(s, "createArtwork", 0, body, "500") /\ SameDocs
                         /\ UNCHANGED <<freeKeys, created>>
                    ELSE /\ SetColl("artworks", artworks \cup {stored})
                         /\ Take("artworks", k)
                         /\ Record("artworks", k)
                         /\ Answer(s, "createArtwork", normalizeId(stored), body, "201")
    /\ UNCHANGED <<usingNeDB, sessions, scenario, rvars, bvars, qvars>>

\* PATCH /api/admin/artworks/:id
PatchArtwork(s) ==
    /\ Arrives(s, {"artworks"})
    /\ \E n \in PathIds, body \in PatchBodies("title", Titles) :
         IF ~isAdmin(deserializeUser(s))
         THEN Answer(s, "patchArtwork", n, body, "403") /\ SameDocs
         ELSE PatchById(s, "patchArtwork", "artworks", n, body)
    /\ UNCHANGED <<usingNeDB, freeKeys, sessions, scenario, created, rvars, bvars, qvars>>

\* DELETE /api/admin/artworks/:id
DeleteArtwork(s) ==
    /\ Arrives(s, {"artworks"})
    /\ \E n \in PathIds :
         IF ~isAdmin(deserializeUser(s))
         THEN Answer(s, "deleteArtwork", n, NoBody, "403") /\ SameDocs
         ELSE DeleteById(s, "deleteArtwork", "artworks", n)
    /\ UNCHANGED <<usingNeDB, freeKeys, sessions, scenario, created, rvars, bvars, qvars>>

\* POST /api/admin/faqs: FAQ.create(req.body), nothing else
CreateFaq(s) ==
    /\ Arrives(s, {"faqs"})
    /\ \E q \in Questions, a \in Answers :
         LET body == [question |-> q, answer |-> a] IN
         IF ~isAdmin(deserializeUser(s))
         THEN Answer(s, "createFaq", 0, body, "403") /\ SameDocs /\ UNCHANGED <<freeKeys, created>>
         ELSE \E k \in freeKeys["faqs"] :
                LET doc == WithKey(body, k) IN
                IF Duplicate("faqs", faqs, doc)
                THEN Answer(s, "createFaq", 0, body, "500") /\ SameDocs
                     /\ UNCHANGED <<freeKeys, created>>
                ELSE /\ SetColl("faqs", faqs \cup {doc})
                     /\ Take("faqs", k)
                     /\ Record("faqs", k)
                     /\ Answer(s, "createFaq", normalizeId(doc), body, "201")
    /\ UNCHANGED <<usingNeDB, sessions, scenario, rvars, bvars, qvars>>

\* PATCH /api/admin/faqs/:id
PatchFaq(s) ==
    /\ Arrives(s, {"faqs"})
    /\ \E n \in PathIds, body \in PatchBodies("answer", Answers) :
         IF ~isAdmin(deserializeUser(s))
         THEN Answer(s, "patchFaq", n, body, "403") /\ SameDocs
         ELSE PatchById(s, "patchFaq", "faqs", n, body)
    /\ UNCHANGED <<usingNeDB, freeKeys, sessions, scenario, created, rvars, bvars, qvars>>

\* DELETE /api/admin/faqs/:id
DeleteFaq(s) ==
    /\ Arrives(s, {"faqs"})
    /\ \E n \in PathIds :
         IF ~isAdmin(deserializeUser(s))
         THEN Answer(s, "deleteFaq", n, NoBody, "403") /\ SameDocs
         ELSE DeleteById(s, "deleteFaq", "faqs", n)
    /\ UNCHANGED <<usingNeDB, freeKeys, sessions, scenario, created, rvars, bvars, qvars>>

(***************************************************************************)
(* Singleton routes, one action per stretch between two awaits:            *)
(*   let doc = await Model.findOne();                                      *)
(*   if (!doc) doc = await Model.create(req.body)                          *)
(*   else { Object.assign(doc, req.body); await doc.save() }               *)
(***************************************************************************)
\* the collection a singleton route works on
SingletonOf(op) == IF op = "patchArtist" THEN "artist" ELSE "settings"
SingletonOps == {"patchArtist", "putSettings", "getSettings"}

\* PATCH /api/admin/artist: isAdmin, up to await ArtistInfo.findOne()
PatchArtist(s) ==
    /\ Arrives(s, {"singletons"})
    /\ \E v \in Names :
         LET body == [name |-> v] IN
         IF ~isAdmin(deserializeUser(s)) THEN Answer(s, "patchArtist", 0, body, "403")
         ELSE Await(s, "findOne", "patchArtist", 0, body)
    /\ SameDocs
    /\ UNCHANGED <<usingNeDB, freeKeys, sessions, scenario, created, rvars, bvars, qvars>>

\* PUT /api/admin/settings: isAdmin, up to await SiteSettings.findOne()
PutSettings(s) ==
    /\ Arrives(s, {"singletons"})
    /\ \E h \in Hues \cup BadHues :
         LET body == [accentHue |-> h] IN
         IF ~isAdmin(deserializeUser(s)) THEN Answer(s, "putSettings", 0, body, "403")
         ELSE Await(s, "findOne", "putSettings", 0, body)
    /\ SameDocs
    /\ UNCHANGED <<usingNeDB, freeKeys, sessions, scenario, created, rvars, bvars, qvars>>

\* GET /api/settings (public), up to await SiteSettings.findOne();
\* it goes on to SiteSettings.create({}) when there is no record
GetSettings(s) ==
    /\ Arrives(s, {"singletons"})
    /\ Await(s, "findOne", "getSettings", 0, NoBody)
    /\ SameDocs
    /\ UNCHANGED <<usingNeDB, freeKeys, sessions, scenario, created, rvars, bvars, qvars>>

\* findOne() resolves. Without a record the handler goes on to create one.
\* With a record the GET answers; an update goes on to doc.save() on
\* MongoDB, while on NeDB the document is a plain object, doc.save is not a
\* function, the TypeError lands in the catch and nothing is written.
FindSingleton(s) ==
    /\ req[s].pc = "findOne"
    /\ req[s].op \in SingletonOps
    /\ LET C == Coll(SingletonOf(req[s].op)) IN
         IF C = {}
         THEN req' = [req EXCEPT ![s].pc = "createOne"] /\ UNCHANGED last
         ELSE \E d \in C :
                IF req[s].op = "getSettings" THEN Finish(s, 0, "200")
                ELSE IF usingNeDB THEN Finish(s, 0, "500")
                ELSE /\ req' = [req EXCEPT ![s].pc = "saveOne", ![s].target = d._id]
                     /\ UNCHANGED last
    /\ SameDocs
    /\ UNCHANGED <<usingNeDB, freeKeys, sessions, scenario, ops, created, rvars, bvars, qvars>>

\* Model.create(req.body) resolves (the Mongoose schema fills in its defaults)
\* or rejects with a validation error, which the catch answers with 500
CreateSingleton(s) ==
    /\ req[s].pc = "createOne"
    /\ req[s].op \in SingletonOps
    /\ LET c == SingletonOf(req[s].op) IN
       \E k \in freeKeys[c] :
         LET doc == WithKey(IF usingNeDB THEN req[s].body
                            ELSE Merge(SchemaDefaults(c), req[s].body), k) IN
         IF ~usingNeDB /\ ~SchemaValid(c, doc)
         THEN /\ Finish(s, 0, "500")
              /\ SameDocs
              /\ UNCHANGED <<freeKeys, created>>
         ELSE /\ SetColl(c, Coll(c) \cup {doc})
              /\ Take(c, k)
              /\ IF req[s].op = "getSettings" THEN UNCHANGED created ELSE Record(c, k)
              /\ Finish(s, 0, "200")
    /\ UNCHANGED <<usingNeDB, sessions, scenario, ops, rvars, bvars, qvars>>

\* doc.save() resolves on MongoDB: the paths Object.assign modified are
\* written to the stored document
SaveSingleton(s) ==
    /\ req[s].pc = "saveOne"
    /\ req[s].op \in SingletonOps
    /\ LET c == SingletonOf(req[s].op)
           T == Matching(Coll(c), "_id", req[s].target)
       IN  IF \A d \in T : SchemaValid(c, Merge(d, req[s].body))
           THEN /\ SetColl(c, (Coll(c) \ T) \cup {Merge(d, req[s].body) : d \in T})
                /\ Finish(s, 0, "200")
           ELSE /\ SameDocs
                /\ Finish(s, 0, "500")
    /\ UNCHANGED <<usingNeDB, freeKeys, sessions, scenario, ops, created, rvars, bvars, qvars>>

(***************************************************************************)
(* Startup: connectDB / initNeDB and setupAuth                             *)
(***************************************************************************)
\* the key the backend gives the next document of collection c at startup
NextKey(free, c) == CHOOSE k \in free[c] : TRUE

\* initNeDB loads the sample data when the artworks datastore is empty
NeedsSeed(nedb, arts) == nedb /\ arts = {}
\* initNeDB / setupAuth insert the admin when no user has the admin email
NeedsAdmin(us) == Matching(us, "email", adminEmail) = {}

\* the collections a startup inserts into
StartupWrites(nedb, arts, us) ==
    (IF NeedsSeed(nedb, arts) THEN {"artworks", "artist", "faqs", "settings"} ELSE {})
      \cup (IF NeedsAdmin(us) THEN {"users"} ELSE {})

\* the process is restarted: requests in flight are lost, the databases and
\* the session store are on disk
Restart ==
    /\ scenario \in StoreScenarios
    /\ LET W == StartupWrites(usingNeDB, artworks, users) IN
         /\ \A c \in W : freeKeys[c] # {}
         /\ artworks' = IF "artworks" \in W
                        THEN artworks \cup {WithKey(SampleArtwork, NextKey(freeKeys, "artworks"))}
                        ELSE artworks
         /\ artist'   = IF "artist" \in W
                        THEN artist \cup {WithKey(SampleArtist, NextKey(freeKeys, "artist"))}
                        ELSE artist
         /\ faqs'     = IF "faqs" \in W
                        THEN faqs \cup {WithKey(SampleFaq, NextKey(freeKeys, "faqs"))}
                        ELSE faqs
         /\ settings' = IF "settings" \in W
                        THEN settings \cup {WithKey(DefaultSettings, NextKey(freeKeys, "settings"))}
                        ELSE settings
         /\ users'    = IF "users" \in W
                        THEN users \cup {WithKey(DefaultAdmin, NextKey(freeKeys, "users"))}
                        ELSE users
         /\ freeKeys' = [c \in Colls |-> IF c \in W THEN freeKeys[c] \ {NextKey(freeKeys, c)}
                                         ELSE freeKeys[c]]
    /\ req' = [x \in Sess |-> NoReq]
    /\ UNCHANGED <<usingNeDB, last, sessions, scenario, ops, created, rvars, bvars, qvars>>

\* the rebuild orchestrator when no rebuild was triggered yet: NODE_ENV = env,
\* the clock at t, dist/public holding build g
RebuildIdleAt(env, t, g) ==
    /\ isRebuilding = FALSE
    /\ lastRebuildTime = 0
    /\ nodeEnv = env
    /\ now = t
    /\ fs = [p \in Paths |-> IF p = publicDir THEN Built(g) ELSE NoDir]
    /\ rpc = [c \in Calls |-> "idle"]
    /\ rres = [c \in Calls |-> NoResult]
    /\ rloc = [c \in Calls |-> NoLocals]
    /\ timers = <<>>
    /\ gen = g
    /\ rhist = [c \in Calls |-> NoHist]
RebuildIdle == RebuildIdleAt("development", StartTime, 1)

(***************************************************************************)
(* POST /api/admin/rebuild: the route around triggerRebuild                *)
(***************************************************************************)
\* await triggerRebuild(); res.json({ success: true, message: "Rebuild started" }):
\* the value triggerRebuild resolves to is not looked at, and triggerRebuild
\* catches every error itself, so the route's catch (500) is never entered
RebuildAnswer(result) == "200:started"

\* isAdmin, then the handler is entered; the invocation of triggerRebuild
\* made for the request of session s is invocation s
PostRebuild(s) ==
    /\ Arrives(s, {"trigger"})
    /\ s \in Calls
    /\ IF ~isAdmin(deserializeUser(s)) THEN Answer(s, "rebuild", 0, NoBody, "403")
       ELSE Await(s, "call", "rebuild", 0, NoBody)
    /\ SameDocs
    /\ UNCHANGED <<usingNeDB, freeKeys, sessions, scenario, created, rvars, bvars, qvars>>

\* the handler calls triggerRebuild()
CallRebuild(s) ==
    /\ req[s].op = "rebuild"
    /\ Trigger(s)

\* triggerRebuild has resolved: the route answers
AnswerRebuild(s) ==
    /\ req[s].op = "rebuild"
    /\ rpc[s] = "returned"
    /\ Finish(s, 0, RebuildAnswer(rres[s]))
    /\ rpc' = [rpc EXCEPT ![s] = "idle"]
    /\ rres' = [rres EXCEPT ![s] = NoResult]
    /\ rloc' = [rloc EXCEPT ![s] = NoLocals]
    /\ rhist' = [rhist EXCEPT ![s] = NoHist]
    /\ SameDocs
    /\ UNCHANGED <<isRebuilding, lastRebuildTime, nodeEnv, now, fs, timers, gen>>
    /\ UNCHANGED <<usingNeDB, freeKeys, sessions, scenario, ops, created, bvars, qvars>>

\* time passes and builds get staged while the rebuild trigger is in use
TriggerTick  == scenario = "trigger" /\ Tick
TriggerStage == scenario = "trigger" /\ StageNewBuild
\* the window the rebuild trigger is explored in: the last TriggerTicks
\* ticks of the clock and the last TriggerGens trees
TriggerTicks == 4
TriggerGens  == 3

\* the first start on empty databases
InitStore ==
    /\ scenario \in ApiScenarios
    /\ IF scenario = "trigger"
       THEN /\ RebuildIdleAt("production", MaxTime - TriggerTicks * TickMs, MaxGen - TriggerGens)
            /\ usingNeDB = TRUE
       ELSE /\ RebuildIdle
            /\ usingNeDB \in BOOLEAN
    /\ LET free == [c \in Colls |-> Keys]
           W    == StartupWrites(usingNeDB, {}, {})
       IN  /\ artworks = IF "artworks" \in W THEN {WithKey(SampleArtwork, NextKey(free, "artworks"))} ELSE {}
           /\ artist   = IF "artist" \in W THEN {WithKey(SampleArtist, NextKey(free, "artist"))} ELSE {}
           /\ faqs     = IF "faqs" \in W THEN {WithKey(SampleFaq, NextKey(free, "faqs"))} ELSE {}
           /\ settings = IF "settings" \in W THEN {WithKey(DefaultSettings, NextKey(free, "settings"))} ELSE {}
           /\ users    = {WithKey(DefaultAdmin, NextKey(free, "users"))}
           /\ freeKeys = [c \in Colls |-> IF c \in W THEN Keys \ {NextKey(free, c)} ELSE Keys]
    /\ req = [x \in Sess |-> NoReq]
    /\ last = NoAnswer
    /\ sessions = [x \in Sess |-> NoKey]
    /\ ops = 0
    /\ created = [c \in Colls |-> {}]
    /\ BootDone(usingNeDB)
    /\ related = NoRelated
    /\ status = NoStatus
    /\ query = NoQuery

NextStore ==
    \/ \E s \in Sess : Login(s)
    \/ \E s \in Sess : Logout(s)
    \/ \E s \in Sess : StartCreateUser(s)
    \/ \E s \in Sess : CheckCreateUser(s)
    \/ \E s \in Sess : DoCreateUser(s)
    \/ \E s \in Sess : StartDeleteUser(s)
    \/ \E s \in Sess : FindDeleteUser(s)
    \/ \E s \in Sess : DoDeleteUser(s)
    \/ \E s \in Sess : CreateArtwork(s)
    \/ \E s \in Sess : PatchArtwork(s)
    \/ \E s \in Sess : DeleteArtwork(s)
    \/ \E s \in Sess : CreateFaq(s)
    \/ \E s \in Sess : PatchFaq(s)
    \/ \E s \in Sess : DeleteFaq(s)
    \/ \E s \in Sess : PatchArtist(s)
    \/ \E s \in Sess : PutSettings(s)
    \/ \E s \in Sess : GetSettings(s)
    \/ \E s \in Sess : FindSingleton(s)
    \/ \E s \in Sess : CreateSingleton(s)
    \/ \E s \in Sess : SaveSingleton(s)
    \/ Restart
    \/ \E s \in Sess : PostRebuild(s)
    \/ \E s \in Sess : CallRebuild(s)
    \/ \E s \in Sess : AnswerRebuild(s)
    \/ \E c \in Calls : ViteDone(c)
    \/ \E c \in Calls : PrerenderDone(c)
    \/ \E c \in Calls : AccessNew(c)
    \/ \E c \in Calls : AccessOld(c)
    \/ \E c \in Calls : RmOld(c)
    \/ \E c \in Calls : AccessPub(c)
    \/ \E c \in Calls : RenamePub(c)
    \/ \E c \in Calls : RenameNew(c)
    \/ \E c \in Calls : RbAccess(c)
    \/ \E c \in Calls : RbRename(c)
    \/ CleanupFire
    \/ TriggerTick
    \/ TriggerStage

SpecStore == InitStore /\ [][NextStore]_vars

(***************************************************************************)
(* Claims about the admin API (checked under SpecStore)                    *)
(***************************************************************************)
\* the server sends an answer in this step
Answered == last'.seq # last.seq
\* the collection a content or singleton route works on
CollOf(op) ==
    CASE op \in {"createArtwork", "patchArtwork", "deleteArtwork"} -> "artworks"
      [] op \in {"createFaq", "patchFaq", "deleteFaq"} -> "faqs"
      [] op \in {"createUser", "deleteUser"} -> "users"
      [] op = "patchArtist" -> "artist"
      [] OTHER -> "settings"
\* the records of collection c that were created through the admin API and
\* that a list read shows under the numeric id n
ApiRecords(c, n) == {d \in Coll(c) : d._id \in created[c] /\ normalizeId(d) = n}

\* C6: when an admin's PATCH of one content field of an artwork or FAQ is
\* answered, and the path id is the numeric id the API shows for a record
\* created through the API, the answer is not "not found" and the record is
\* afterwards the old record with the patched field replaced.
C6_UpdateRoundTrip ==
    [][(/\ Answered
        /\ last'.op \in {"patchArtwork", "patchFaq"}
        /\ isAdmin(last'.user)
        /\ ~Has(last'.body, "_id")) =>
          \A d \in ApiRecords(CollOf(last'.op), last'.n) :
             /\ last'.resp # "404"
             /\ Merge(d, last'.body) \in (IF last'.op = "patchArtwork" THEN artworks' ELSE faqs')]_vars

\* the step in which a delete route looks the path id up
LooksUp ==
    /\ Answered
    /\ \/ last'.op \in {"deleteArtwork", "deleteFaq"}
       \/ last'.op = "deleteUser" /\ req[last'.sess].pc = "find"

\* C7: when an admin's DELETE of an artwork, FAQ or user looks up a numeric
\* path id that no record of the collection carries, the answer is "not
\* found" (not a server error) and no record of any collection is removed.
C7_DeleteNonexistent ==
    [][(/\ LooksUp
        /\ isAdmin(last'.user)
        /\ last'.n # NaN
        /\ \A d \in Coll(CollOf(last'.op)) : normalizeId(d) # last'.n) =>
          /\ last'.resp = "404"
          /\ users' = users /\ artworks' = artworks /\ faqs' = faqs
          /\ artist' = artist /\ settings' = settings]_vars

C7_Witness ==
    /\ last.op \in {"deleteArtwork", "deleteFaq", "deleteUser"}
    /\ isAdmin(last.user)
    /\ last.n # NaN
    /\ last.resp = "404"
    /\ Coll(CollOf(last.op)) # {}

\* C8: when an admin's update of ArtistInfo or SiteSettings is answered, a
\* collection that was empty holds exactly one record with the values sent,
\* and a collection that held one record still holds exactly that record
\* with the new values, and the update succeeded.
C8_SingletonUpsert ==
    [][(/\ Answered
        /\ last'.op \in {"patchArtist", "putSettings"}
        /\ isAdmin(last'.user)) =>
          LET C  == IF last'.op = "patchArtist" THEN artist ELSE settings
              Cp == IF last'.op = "patchArtist" THEN artist' ELSE settings'
          IN  /\ C = {} =>
                   /\ last'.resp = "200"
                   /\ Cardinality(Cp) = 1
                   /\ \A d \in Cp : \A f \in DOMAIN last'.body : d[f] = last'.body[f]
              /\ Cardinality(C) = 1 =>
                   /\ last'.resp = "200"
                   /\ Cp = {Merge(d, last'.body) : d \in C}]_vars

\* C9: the user collection always holds at least one user with role admin.
C9_AdminExists == \E u \in users : u.role = "admin"

\* C10: a step of a delete-user request never removes the record of the user
\* the request was authenticated as, and when the path id resolves to that
\* record the request is answered with the own-account rejection and the
\* user collection stays as it is.
C10_SelfDeletePrevention ==
    [][\A s \in Sess :
         (req[s].op = "deleteUser" /\ isAdmin(req[s].user)) =>
            /\ (Answered /\ last'.sess = s) =>
                  \A u \in users : u._id = req[s].user._id => u \in users'
            /\ (/\ req[s].pc = "find"
                /\ \E t \in ByHash(users, req[s].n) : t._id = req[s].user._id) =>
                  /\ req'[s].pc # "delete"
                  /\ (Answered /\ last'.sess = s) => (last'.resp = "400:self" /\ users' = users)]_vars

C10_Witness ==
    /\ last.op = "deleteUser"
    /\ last.resp = "400:self"
    /\ Cardinality(users) >= 2

\* the numeric id every read shows for a stored record (GET /api/artworks,
\* GET /api/artworks/:slug, GET /api/faqs, GET /api/admin/users and the
\* create / update responses all send normalizeId of the stored document)
ShownId(d) == normalizeId(d)
\* the collections whose records the API creates one by one
Listed == {"users", "artworks", "faqs"}
\* collection c after the step
CollAfter(c) ==
    CASE c = "users" -> users' [] c = "artworks" -> artworks' [] c = "faqs" -> faqs'
      [] c = "artist" -> artist' [] c = "settings" -> settings'

\* C11: a record created through the admin API is shown under the same
\* numeric id by every read, before and after every step (requests and
\* restarts), and the id in the 201 answer of its creation is the id the
\* stored record is shown under.
C11_IdentityStability ==
    [][/\ \A c \in Listed : \A d \in Coll(c) : \A e \in CollAfter(c) :
            (d._id \in created[c] /\ e._id = d._id) => ShownId(e)' = ShownId(d)
       /\ (Answered /\ last'.resp = "201") =>
            \E e \in CollAfter(CollOf(last'.op)) :
               /\ e._id \in created'[CollOf(last'.op)] \ created[CollOf(last'.op)]
               /\ ShownId(e)' = last'.n]_vars

\* the answer tells the client that the rebuild went through
ReportsSuccess(resp) == resp = "200:started"

\* C14: when the route answers an admin's POST /api/admin/rebuild, the
\* answer reports success only if triggerRebuild swapped the new build into
\* the live path, and reports a failure whenever triggerRebuild rejected the
\* trigger (in progress, cooldown) or its build or swap failed.
C14_RebuildOutcomeReporting ==
    [][(Answered /\ last'.op = "rebuild" /\ isAdmin(last'.user)) =>
          LET result == rres[last'.sess] IN
          /\ ReportsSuccess(last'.resp) => (result.success /\ result.kind = "rebuilt")
          /\ ~result.success => ~ReportsSuccess(last'.resp)]_vars

\* the operations of the admin write endpoints and of the rebuild trigger
AdminOps == {"createUser", "deleteUser", "createArtwork", "patchArtwork", "deleteArtwork",
             "createFaq", "patchFaq", "deleteFaq", "patchArtist", "putSettings", "rebuild"}

\* C15: a request to an admin write endpoint or to the rebuild trigger whose
\* session is not authenticated with role admin is answered 403 in the step
\* it arrives in, that step leaves the five collections, isRebuilding and
\* lastRebuildTime as they are, and no such request is ever past the
\* middleware, waiting to go on.
C15_AdminOnlyWrites ==
    /\ [][(Answered /\ last'.op \in AdminOps /\ ~(last'.user # NoUser /\ last'.user.role = "admin")) =>
             /\ last'.resp = "403"
             /\ users' = users /\ artworks' = artworks /\ faqs' = faqs
             /\ artist' = artist /\ settings' = settings
             /\ isRebuilding' = isRebuilding /\ lastRebuildTime' = lastRebuildTime]_vars
    /\ [](\A s \in Sess : req[s].op \in AdminOps =>
             (req[s].user # NoUser /\ req[s].user.role = "admin"))

C15_Witness ==
    /\ last.op \in AdminOps
    /\ last.resp = "403"
    /\ last.user # NoUser /\ last.user.role = "user"
    /\ \E u \in users : u._id = last.user._id

(***************************************************************************)
(* Process start: connectDB (db.ts) and initNeDB (nedb.ts), one action per *)
(* stretch between two awaits. The collections are the NeDB files under    *)
(* data/nedb, which outlive the process.                                   *)
(***************************************************************************)
MaxStarts == 3       \* process starts explored

\* what connectDB and initNeDB leave alone
ConnFrame == UNCHANGED <<req, last, sessions, scenario, ops, created, rvars, qvars>>
SameFiles == SameDocs /\ UNCHANGED freeKeys

\* connectDB up to its first await: initNeDB() or mongoose.connect(...)
ConnectDB ==
    /\ cpc = "start"
    /\ cpc' = IF useMongoDB(USE_NEDB) THEN "connect" ELSE "initNeDB"
    /\ SameFiles /\ ConnFrame
    /\ UNCHANGED <<usingNeDB, USE_NEDB, isNeDBInitialized, readyState, cloc, starts, chist>>

\* await mongoose.connect(MONGODB_URI, { serverSelectionTimeoutMS: 5000 }):
\* connected, or the catch that switches to NeDB
MongooseConnect ==
    /\ cpc = "connect"
    /\ chist' = [chist EXCEPT !.mongoAttempts = @ + 1]
    /\ \E ok \in BOOLEAN :
         IF ok
         THEN /\ readyState' = 1
              /\ usingNeDB' = FALSE
              /\ cpc' = "returned"
              /\ UNCHANGED cloc
         ELSE /\ cloc' = [cloc EXCEPT !.fallback = TRUE]
              /\ cpc' = "initNeDB"
              /\ UNCHANGED <<readyState, usingNeDB>>
    /\ SameFiles /\ ConnFrame
    /\ UNCHANGED <<USE_NEDB, isNeDBInitialized, starts>>

\* initNeDB throws: the catch of the default path rethrows, the catch of the
\* fallback path only logs "Application will continue with limited functionality"
InitNeDBThrows ==
    /\ cpc' = IF cloc.fallback THEN "returned" ELSE "threw"
    /\ UNCHANGED <<usingNeDB, isNeDBInitialized>>
\* initNeDB returns: usingNeDB = true
InitNeDBReturns ==
    /\ isNeDBInitialized' = TRUE
    /\ usingNeDB' = TRUE
    /\ cpc' = "returned"

\* initNeDB up to the seeding: mkdir, the datastores, artworksDB.count,
\* usersDB.findOne({ email: admin })
InitNeDBOpen ==
    /\ cpc = "initNeDB"
    /\ chist' = [chist EXCEPT !.initCalls = @ + 1]
    /\ IF isNeDBInitialized
       THEN InitNeDBReturns /\ UNCHANGED cloc
       ELSE \E ok \in BOOLEAN :
              IF ok
              THEN /\ cloc' = [cloc EXCEPT !.hasExistingData = (artworks # {}),
                                           !.hasAdminUser = ~NeedsAdmin(users)]
                   /\ cpc' = IF artworks # {} THEN "admin" ELSE "seed"
                   /\ UNCHANGED <<usingNeDB, isNeDBInitialized>>
              ELSE InitNeDBThrows /\ UNCHANGED cloc
    /\ SameFiles /\ ConnFrame
    /\ UNCHANGED <<USE_NEDB, readyState, starts>>

\* the collections initNeDB seeds, in the order it inserts into them
SeedOrder == <<"artworks", "artist", "faqs", "settings">>
Sample(c) ==
    CASE c = "artworks" -> SampleArtwork [] c = "artist" -> SampleArtist
      [] c = "faqs" -> SampleFaq [] c = "settings" -> DefaultSettings
      [] c = "users" -> DefaultAdmin
\* collection c after the first upto inserts of the seeding went through
Seeded(c, upto) ==
    IF \E i \in 1..upto : SeedOrder[i] = c
    THEN Coll(c) \cup {WithKey(Sample(c), NextKey(freeKeys, c))}
    ELSE Coll(c)

\* if (!hasExistingData) try { readFile + insert per collection } catch { throw }
InitNeDBSeed ==
    /\ cpc = "seed"
    /\ \E upto \in 0..Len(SeedOrder) :
         /\ artworks' = Seeded("artworks", upto)
         /\ artist'   = Seeded("artist", upto)
         /\ faqs'     = Seeded("faqs", upto)
         /\ settings' = Seeded("settings", upto)
         /\ freeKeys' = [c \in Colls |-> IF \E i \in 1..upto : SeedOrder[i] = c
                                         THEN freeKeys[c] \ {NextKey(freeKeys, c)}
                                         ELSE freeKeys[c]]
         /\ IF upto = Len(SeedOrder)
            THEN cpc' = "admin" /\ UNCHANGED <<usingNeDB, isNeDBInitialized>>
            ELSE InitNeDBThrows
    /\ UNCHANGED users
    /\ ConnFrame
    /\ UNCHANGED <<USE_NEDB, readyState, cloc, starts, chist>>

\* if (!hasAdminUser) usersDB.insert(admin); isNeDBInitialized = true
InitNeDBAdmin ==
    /\ cpc = "admin"
    /\ IF cloc.hasAdminUser
       THEN InitNeDBReturns /\ SameFiles
       ELSE \E ok \in BOOLEAN :
              IF ok
              THEN /\ SetColl("users", users \cup {WithKey(DefaultAdmin, NextKey(freeKeys, "users"))})
                   /\ Take("users", NextKey(freeKeys, "users"))
                   /\ InitNeDBReturns
              ELSE InitNeDBThrows /\ SameFiles
    /\ ConnFrame
    /\ UNCHANGED <<USE_NEDB, readyState, cloc, starts, chist>>

\* the operator starts the process again, perhaps with another USE_NEDB:
\* the module-level state of db.ts and nedb.ts is fresh, the files are not
ProcessRestart ==
    /\ cpc \in {"returned", "threw"}
    /\ starts < MaxStarts
    /\ starts' = starts + 1
    /\ USE_NEDB' \in EnvValues
    /\ usingNeDB' = FALSE
    /\ isNeDBInitialized' = FALSE
    /\ readyState' = 0
    /\ cpc' = "start"
    /\ cloc' = NoConnLocals
    /\ chist' = NoConnHist
    /\ SameFiles /\ ConnFrame

\* the first start, before connectDB is called, on an empty data directory
InitConnect ==
    /\ RebuildIdle
    /\ usingNeDB = FALSE
    /\ users = {} /\ artworks = {} /\ faqs = {} /\ artist = {} /\ settings = {}
    /\ freeKeys = [c \in Colls |-> Keys]
    /\ req = [x \in Sess |-> NoReq]
    /\ last = NoAnswer
    /\ sessions = [x \in Sess |-> NoKey]
    /\ scenario = "start"
    /\ ops = 0
    /\ created = [c \in Colls |-> {}]
    /\ USE_NEDB \in EnvValues
    /\ isNeDBInitialized = FALSE
    /\ readyState = 0
    /\ cpc = "start"
    /\ cloc = NoConnLocals
    /\ starts = 1
    /\ chist = NoConnHist
    /\ related = NoRelated
    /\ status = NoStatus
    /\ query = NoQuery

NextConnect ==
    \/ ConnectDB
    \/ MongooseConnect
    \/ InitNeDBOpen
    \/ InitNeDBSeed
    \/ InitNeDBAdmin
    \/ ProcessRestart

SpecConnect == InitConnect /\ [][NextConnect]_vars

(***************************************************************************)
(* Claims about the process start (checked under SpecConnect)              *)
(***************************************************************************)
\* C12: whenever connectDB has returned without throwing, a usable backend
\* is selected: MongoDB is connected, or NeDB is initialized and
\* isUsingNeDB() is true; and after a failed MongoDB connection attempt
\* connectDB has called initNeDB before it returns.
C12_StartupFailover ==
    cpc = "returned" =>
       /\ \/ readyState = 1
          \/ isNeDBInitialized /\ usingNeDB
       /\ (chist.mongoAttempts > 0 /\ readyState # 1) => chist.initCalls > 0

\* C13: connectDB calls mongoose.connect only when USE_NEDB is exactly
\* 'false', and then before anything else; for every other value, unset
\* included, it makes no connection attempt, calls initNeDB at once and can
\* only return with NeDB selected.
C13_BackendSelection ==
    /\ chist.mongoAttempts > 0 => USE_NEDB = "false"
    /\ (USE_NEDB = "false" /\ chist.initCalls > 0) => chist.mongoAttempts > 0
    /\ (USE_NEDB = "false" /\ cpc \in {"returned", "threw"}) => chist.mongoAttempts = 1
    /\ USE_NEDB # "false" =>
          /\ readyState = 0
          /\ cpc # "connect"
          /\ cpc \in {"returned", "threw"} => chist.initCalls = 1
          /\ cpc = "returned" => (usingNeDB /\ isNeDBInitialized)

C13_Witness ==
    /\ cpc = "returned"
    /\ USE_NEDB \in {"FALSE", "0", ""}
    /\ usingNeDB /\ isNeDBInitialized
    /\ chist.mongoAttempts = 0
    /\ artworks # {} /\ users # {}
    /\ starts > 1

\* C16: the ArtistInfo collection and the SiteSettings collection hold at
\* most one document each, in every reachable state.
C16_SingletonInvariant ==
    /\ Cardinality(artist) <= 1
    /\ Cardinality(settings) <= 1

\* C17: no two artwork records share a slug, on either backend, after any
\* sequence of admin create and update operations.
C17_SlugUniqueness ==
    \A a \in artworks, b \in artworks : a.slug = b.slug => a._id = b._id

(***************************************************************************)
(* GET /api/artworks/related/:slug over a catalogue (routes.ts)            *)
(*   const currentArtwork = await Artwork.findOne({ slug })                *)
(*   if (!currentArtwork) return res.json([])                              *)
(*   const related = await Artwork.find({ category: currentArtwork.category,*)
(*                       slug: { $ne: slug } }).limit(3)                    *)
(*   res.json(normalizeIds(related))                                       *)
(***************************************************************************)
\* the native keys of the catalogue's artworks
ArtKeys == {"a1", "a2", "a3", "a4", "a5"}
\* the slug each of them was first published under
OwnSlug == [k \in ArtKeys |->
              CASE k = "a1" -> "sunrise" [] k = "a2" -> "dawn" [] k = "a3" -> "dusk"
                [] k = "a4" -> "noon" [] k = "a5" -> "night"]
RelSlugs == {OwnSlug[k] : k \in ArtKeys}
\* a slug no artwork has
NoSuchSlug == "missing"
\* category: enum ['original', 'commission', 'exhibition'], required
Categories == {"original", "commission"}

\* the slugs the artwork of key k can be stored under: its own, and on NeDB,
\* whose datastore has no unique index, also one another artwork has
SlugsFor(nedb, k) == {OwnSlug[k]} \cup (IF nedb THEN {"sunrise"} ELSE {})
\* the catalogues the artworks collection can hold
Catalogues(nedb) ==
    UNION {{ {[_id |-> k, slug |-> sl[k], category |-> cat[k]] : k \in K} :
               sl \in {f \in [K -> RelSlugs] : \A k \in K : f[k] \in SlugsFor(nedb, k)},
               cat \in [K -> Categories]} : K \in SUBSET ArtKeys}

\* .limit(3)
RelatedLimit == 3
\* what a cursor with limit(n) can deliver of the matching documents Q
LimitNone(Q, n) == {Q}
Limit(Q, n) ==
    {R \in SUBSET Q : Cardinality(R) = IF Cardinality(Q) < n THEN Cardinality(Q) ELSE n}

\* the documents find({ category, slug: { $ne: slug } }) matches
RelatedQuery(C, category, slug) == {d \in C : d.category = category /\ d.slug # slug}

RelatedFrame == UNCHANGED <<rvars, svars, bvars, status, query>>

\* the request arrives: up to await Artwork.findOne({ slug: req.params.slug })
GetRelated ==
    /\ scenario = "related"
    /\ related.pc \in {"idle", "sent"}
    /\ \E sl \in RelSlugs \cup {NoSuchSlug} :
         related' = [pc |-> "findOne", slug |-> sl, current |-> NoKey, docs |-> {}, resp |-> ""]
    /\ RelatedFrame

\* findOne resolves: res.json([]) without an artwork, else up to await Artwork.find(...)
FindCurrent ==
    /\ related.pc = "findOne"
    /\ LET M == Matching(artworks, "slug", related.slug) IN
         IF M = {}
         THEN related' = [related EXCEPT !.pc = "sent", !.docs = {}, !.resp = "200"]
         ELSE \E currentArtwork \in M :
                related' = [related EXCEPT !.pc = "find", !.current = currentArtwork._id]
    /\ RelatedFrame

\* find(...).limit(3) resolves: res.json(normalizeIds(related)), which leaves
\* slug and category of every document as they are
FindRelated ==
    /\ related.pc = "find"
    /\ \E currentArtwork \in Matching(artworks, "_id", related.current) :
       \E docs \in Limit(RelatedQuery(artworks, currentArtwork.category, related.slug),
                         RelatedLimit) :
         related' = [related EXCEPT !.pc = "sent", !.docs = docs, !.resp = "200"]
    /\ RelatedFrame

InitRelated ==
    /\ RebuildIdle
    /\ usingNeDB \in BOOLEAN
    /\ users = {} /\ faqs = {} /\ artist = {} /\ settings = {}
    /\ artworks \in Catalogues(usingNeDB)
    /\ freeKeys = [c \in Colls |-> Keys]
    /\ req = [x \in Sess |-> NoReq]
    /\ last = NoAnswer
    /\ sessions = [x \in Sess |-> NoKey]
    /\ scenario = "related"
    /\ ops = 0
    /\ created = [c \in Colls |-> {}]
    /\ BootDone(usingNeDB)
    /\ related = NoRelated
    /\ status = NoStatus
    /\ query = NoQuery

NextRelated ==
    \/ GetRelated
    \/ FindCurrent
    \/ FindRelated

SpecRelated == InitRelated /\ [][NextRelated]_vars

(***************************************************************************)
(* Claims about the related-artworks query (checked under SpecRelated)     *)
(***************************************************************************)
\* C18: for the slug s of an existing artwork the related-artworks query
\* answers with at most 3 records, each of the category of s and with a slug
\* other than s, and with all such records when there are 3 or fewer; for a
\* slug no artwork has it answers with the empty list, not with an error.
C18_RelatedArtworks ==
    related.pc = "sent" =>
      LET s == related.slug
          S == {a \in artworks : a.slug = s}
      IN  /\ related.resp = "200"
          /\ S = {} => related.docs = {}
          /\ S # {} =>
               \E a \in S :
                 LET others == {d \in artworks : d.category = a.category /\ d.slug # s} IN
                 /\ Cardinality(related.docs) <= 3
                 /\ related.docs \subseteq others
                 /\ Cardinality(others) <= 3 => related.docs = others
\* the cap is at work: four artworks qualify and three are returned
C18_Witness ==
    /\ related.pc = "sent"
    /\ Cardinality(related.docs) = 3
    /\ \E a \in artworks :
         /\ a.slug = related.slug
         /\ Cardinality({d \in artworks : d.category = a.category /\ d.slug # a.slug}) = 4

\* C19: while a rebuild is Building, the asset compiler and the prerenderer
\* write into dist/public.new only and never into the live dist/public; the
\* content of dist/public changes only through the rename steps of the swap.
C19_NoInPlaceMutation ==
    [][/\ (\E c \in Calls : rpc[c] \in {"vite", "prerender"} /\ rpc'[c] # rpc[c]) =>
            /\ fs'[publicDir] = fs[publicDir]
            /\ fs'[oldPublicDir] = fs[oldPublicDir]
       /\ fs'[publicDir] # fs[publicDir] =>
            \E c \in Calls : /\ rpc[c] \in {"renamePub", "renameNew", "rbRename"}
                             /\ rpc'[c] # rpc[c]]_vars

C21_IdentityImmutableUnderUpdate ==
    [][(/\ Answered
        /\ last'.op \in {"patchArtwork", "patchFaq"}
        /\ isAdmin(last'.user)
        /\ last'.resp = "200") =>
          LET c == CollOf(last'.op) IN
          \A d \in Coll(c) :
             ShownId(d) = last'.n =>
                \E e \in CollAfter(c) : e._id = d._id /\ ShownId(e)' = last'.n]_vars

\* C22: when the route answers an admin's POST /api/admin/rebuild after the
\* swap and its rollback both failed, the answer does not report success and
\* differs from the answer given after a swap failure that was rolled back;
\* after a swap failure that was rolled back the answer is not a server error.
C22_FatalSwapSurfaced ==
    [][(Answered /\ last'.op = "rebuild" /\ isAdmin(last'.user)) =>
          LET result == rres[last'.sess] IN
          /\ result.kind = "swapAndRollbackFailed" =>
               /\ ~ReportsSuccess(last'.resp)
               /\ last'.resp # RebuildAnswer(Result(FALSE, "swapFailed", 0))
          /\ result.kind = "swapFailed" => last'.resp # "500"]_vars

(***************************************************************************)
(* The rebuild orchestrator when every subprocess and every filesystem     *)
(* call terminates: an await that is pending eventually resolves           *)
(***************************************************************************)
\* the await invocation c is pending on resolves
RebuildStep(c) ==
    \/ ViteDone(c) \/ PrerenderDone(c) \/ AccessNew(c) \/ AccessOld(c) \/ RmOld(c)
    \/ AccessPub(c) \/ RenamePub(c) \/ RenameNew(c) \/ RbAccess(c) \/ RbRename(c)
AwaitsResolve == \A c \in Calls : WF_vars(RebuildStep(c))
SpecRebuildLive == SpecRebuild /\ AwaitsResolve

\* C23: every invocation of triggerRebuild that has entered Building
\* eventually returns, and with its return isRebuilding is false again, on
\* every outcome of the build commands, the swap and the rollback.
C23_RebuildReturnsToIdle ==
    \A c \in Calls :
       (rpc[c] \in ActivePcs) ~> (rpc[c] = "returned" /\ ~isRebuilding)
\* a rebuild whose swap and rollback both failed has returned
C23_Witness ==
    \E c \in Calls :
       /\ rpc[c] = "returned"
       /\ rres[c].kind = "swapAndRollbackFailed"
       /\ ~isRebuilding

\* the value v is within the range the settings field f is specified with
InSpecRange(f, v) ==
    CASE f = "accentHue" -> 0 <= v /\ v <= 360
      [] f \in {"accentSaturation", "accentLightness"} -> 0 <= v /\ v <= 100
      [] OTHER -> TRUE

HasPersistedData ==
    users # {} \/ artworks # {} \/ faqs # {} \/ artist # {} \/ settings # {}

\* C25: a start of the process (a step that answers no request) on a store
\* that holds persisted data in some collection inserts no artist, FAQ or
\* settings record: those collections are after the start what they were.
C25_SeedOnlyOnFirstRun ==
    [][(~Answered /\ HasPersistedData) =>
          (artist' = artist /\ faqs' = faqs /\ settings' = settings)]_vars

\* C26: no two user records share an email, in every reachable state,
\* concurrent create-user requests included.
C26_EmailUniqueness ==
    \A u \in users, v \in users : u.email = v.email => u._id = v._id

(***************************************************************************)
(* getRebuildStatus next to triggerRebuild (rebuild.ts):                   *)
(*   { isRebuilding,                                                       *)
(*     lastRebuildTime: lastRebuildTime > 0 ? new Date(..).toISOString()   *)
(*                                          : null,                        *)
(*     canRebuild: !isRebuilding &&                                        *)
(*                 Date.now() - lastRebuildTime >= REBUILD_COOLDOWN }      *)
(***************************************************************************)
\* mutant: canRebuild only after more than the cooldown
getRebuildStatusStrict ==
    [isRebuilding    |-> isRebuilding,
     lastRebuildTime |-> IF lastRebuildTime > 0 THEN ToISOString(lastRebuildTime) ELSE NullTime,
     canRebuild      |-> ~isRebuilding /\ now - lastRebuildTime > REBUILD_COOLDOWN]
getRebuildStatus ==
    [isRebuilding    |-> isRebuilding,
     lastRebuildTime |-> IF lastRebuildTime > 0 THEN ToISOString(lastRebuildTime) ELSE NullTime,
     canRebuild      |-> ~isRebuilding /\ now - lastRebuildTime >= REBUILD_COOLDOWN]

\* GET /api/admin/rebuild/status: res.json(getRebuildStatus())
GetRebuildStatus ==
    /\ status' = getRebuildStatus
    /\ UNCHANGED <<rvars, svars, bvars, related, query>>

\* the rebuilds of a deployment whose toolchain never leaves a tree at
\* dist/public.new, polled for their status
NextStatus ==
    \/ \E c \in Calls : Trigger(c)
    \/ \E c \in Calls : ViteDone(c)
    \/ \E c \in Calls : PrerenderDone(c)
    \/ \E c \in Calls : AccessNew(c)
    \/ \E c \in Calls : NextCall(c)
    \/ Tick
    \/ GetRebuildStatus

SpecStatus == InitRebuild /\ [][NextStatus]_vars

(***************************************************************************)
(* Claims about the status query (checked under SpecStatus)                *)
(***************************************************************************)
\* invocation c of triggerRebuild enters Building in this step
EntersBuilding(c) == rpc[c] = "idle" /\ rpc'[c] = "vite"

\* C27: a status query changes no state of the orchestrator; its canRebuild
\* is true exactly when no rebuild is in progress and at least 10 s have
\* passed since the last attempt; a trigger issued in a state in which the
\* status says canRebuild is not rejected for "in progress" or "cooldown";
\* and the lastRebuildTime of the status is null until the first attempt
\* enters Building.
C27_StatusConsistency ==
    [][/\ status' # status =>
            /\ UNCHANGED <<rvars, svars, bvars, related, query>>
            /\ status'.isRebuilding = isRebuilding
            /\ status'.canRebuild = (~isRebuilding /\ now - lastRebuildTime >= 10000)
            /\ (status'.lastRebuildTime = NullTime) = (lastRebuildTime = 0)
       /\ \A c \in Calls :
            (getRebuildStatus.canRebuild /\ rpc[c] = "idle" /\ rpc'[c] # "idle") =>
               rres'[c].kind \notin {"inProgress", "cooldown"}
       /\ (lastRebuildTime = 0 /\ ~\E c \in Calls : EntersBuilding(c)) => lastRebuildTime' = 0
       /\ (\E c \in Calls : EntersBuilding(c)) => lastRebuildTime' > 0]_vars
\* the status says canRebuild again, 10 s after an attempt
C27_Witness ==
    /\ status.canRebuild
    /\ status.lastRebuildTime # NullTime
    /\ now - lastRebuildTime = REBUILD_COOLDOWN

(***************************************************************************)
(* NeDBQuery (nedb.ts): find(query) returns a builder; sort and limit      *)
(* store their argument and return this; exec (or await) runs              *)
(*   cursor = db.find(query); if (sortObj) cursor = cursor.sort(sortObj);  *)
(*   if (limitNum !== null) cursor = cursor.limit(limitNum); cursor.exec() *)
(***************************************************************************)
MaxLimit == 3        \* largest limit a caller passes
\* the native keys of the FAQs the datastore can hold
FaqKeys == {"f1", "f2", "f3", "f4"}
\* the values of the field the callers sort by (FAQ.find().sort({ order: 1 }))
Orders == {1, 2}
\* the FAQ datastores a query can run on
FaqStores ==
    UNION {{ {[_id |-> k, order |-> o[k]] : k \in K} : o \in [K -> Orders]} :
             K \in SUBSET FaqKeys}

\* the sequences that list every document of D exactly once
Listings(D) ==
    {q \in [1..Cardinality(D) -> D] : \A i, j \in 1..Cardinality(D) : q[i] = q[j] => i = j}
\* q is ordered by { order: dir }
Sorted(q, dir) == \A i, j \in 1..Len(q) : i < j => dir * q[i].order <= dir * q[j].order
\* the first n documents of q
FirstN(q, n) == SubSeq(q, 1, IF n < Len(q) THEN n ELSE Len(q))

\* mutant: the limit is applied to the candidates and the sort to what is left
CursorExecLimitFirst(D, sortObj, limitNum) ==
    {r \in UNION {Listings(S) : S \in SUBSET D} :
        /\ Len(r) = (IF limitNum > 0 /\ limitNum < Cardinality(D) THEN limitNum
                     ELSE Cardinality(D))
        /\ sortObj # NoSort => Sorted(r, sortObj)}
\* what the NeDB cursor the builder sets up delivers: the matching documents
\* in candidate order, or sorted when a sort was set (ties in candidate
\* order), cut to the limit when a limit other than 0 was set; limit(0) and
\* no limit deliver every document
CursorExec(D, sortObj, limitNum) ==
    {IF limitNum > 0 THEN FirstN(q, limitNum) ELSE q :
        q \in {l \in Listings(D) : sortObj # NoSort => Sorted(l, sortObj)}}

QueryFrame == UNCHANGED <<rvars, bvars, related, status, usingNeDB, users, artworks, faqs,
                          artist, settings, freeKeys, req, last, sessions, scenario, ops,
                          created>>

\* FAQ.find(): new NeDBQuery(db, {})
Find ==
    /\ scenario = "query"
    /\ query.pc \in {"idle", "done"}
    /\ query' = [NoQuery EXCEPT !.pc = "chain"]
    /\ QueryFrame

\* .sort(sortObj)
Sort ==
    /\ query.pc = "chain"
    /\ Len(query.calls) < 2
    /\ \E dir \in {1, 0 - 1} :
         query' = [query EXCEPT !.sortObj = dir, !.calls = Append(@, "sort")]
    /\ QueryFrame

\* .limit(num)
LimitTo ==
    /\ query.pc = "chain"
    /\ Len(query.calls) < 2
    /\ \E num \in 0..MaxLimit :
         query' = [query EXCEPT !.limitNum = num, !.calls = Append(@, "limit")]
    /\ QueryFrame

\* await query: then -> exec
Exec ==
    /\ query.pc = "chain"
    /\ \E docs \in CursorExec(faqs, query.sortObj, query.limitNum) :
         query' = [query EXCEPT !.pc = "done", !.docs = docs]
    /\ QueryFrame

InitQuery ==
    /\ RebuildIdle
    /\ usingNeDB = TRUE
    /\ users = {} /\ artworks = {} /\ artist = {} /\ settings = {}
    /\ faqs \in FaqStores
    /\ freeKeys = [c \in Colls |-> Keys]
    /\ req = [x \in Sess |-> NoReq]
    /\ last = NoAnswer
    /\ sessions = [x \in Sess |-> NoKey]
    /\ scenario = "query"
    /\ ops = 0
    /\ created = [c \in Colls |-> {}]
    /\ BootDone(TRUE)
    /\ related = NoRelated
    /\ status = NoStatus
    /\ query = NoQuery

NextQuery ==
    \/ Find
    \/ Sort
    \/ LimitTo
    \/ Exec

SpecQuery == InitQuery /\ [][NextQuery]_vars

(***************************************************************************)
(* Claims about NeDBQuery (checked under SpecQuery)                        *)
(***************************************************************************)
\* the result r is the first n of the documents D sorted by { order: dir }
FirstNSorted(r, D, dir, n) ==
    /\ Len(r) = (IF n < Cardinality(D) THEN n ELSE Cardinality(D))
    /\ \A i \in 1..Len(r) : r[i] \in D
    /\ \A i, j \in 1..Len(r) : i # j => r[i] # r[j]
    /\ Sorted(r, dir)
    /\ \A d \in D : (\A i \in 1..Len(r) : r[i] # d) =>
                       \A i \in 1..Len(r) : dir * r[i].order <= dir * d.order
\* a query with one sort and one limit chained, in either order, has run
SortAndLimitDone ==
    /\ query.pc = "done"
    /\ query.calls \in {<<"sort", "limit">>, <<"limit", "sort">>}

\* C28 as stated: a query with sort spec s and limit n, chained in either
\* order, delivers the first n of the matching records sorted by s, for
\* every limit n.
C28_SortLimitAnyN ==
    SortAndLimitDone => FirstNSorted(query.docs, faqs, query.sortObj, query.limitNum)
\* C28: a query with sort spec s and limit n >= 1, chained in either order,
\* delivers the first n of the matching records sorted by s: never more than
\* n records and never the sort of some other n of the records.
C28_SortLimitBeforeMaterialization ==
    (SortAndLimitDone /\ query.limitNum >= 1) =>
       FirstNSorted(query.docs, faqs, query.sortObj, query.limitNum)
\* limit chained before sort, fewer records asked for than there are, and
\* the records left out differ in the sort field from the ones delivered
C28_Witness ==
    /\ query.pc = "done"
    /\ query.calls = <<"limit", "sort">>
    /\ query.limitNum = 2
    /\ Cardinality(faqs) = 4
    /\ \E d \in faqs : \A i \in 1..Len(query.docs) : query.docs[i].order # d.order

\* invocation c of triggerRebuild is rejected in this step
Rejected(c) ==
    /\ rpc[c] = "idle"
    /\ rpc'[c] = "returned"
    /\ rres'[c].kind \in {"inProgress", "cooldown", "devMode"}

\* C29: a triggerRebuild call that is rejected (in progress, cooldown, not
\* in production mode) leaves isRebuilding and lastRebuildTime as they are,
\* runs no build command and touches no directory; and a call that returns
\* without having entered Building is such a rejected call.
C29_RejectedTriggerNoEffect ==
    [][\A c \in Calls :
         /\ Rejected(c) =>
              /\ isRebuilding' = isRebuilding
              /\ lastRebuildTime' = lastRebuildTime
              /\ fs' = fs
              /\ gen' = gen
              /\ timers' = timers
         /\ (rpc[c] = "idle" /\ rpc'[c] # "idle" /\ ~Rejected(c)) =>
              (rpc'[c] = "vite" /\ isRebuilding' /\ lastRebuildTime' = now)]_vars
\* a request was rejected for the cooldown with half of the window gone
C29_Witness ==
    \E c \in Calls :
       /\ rpc[c] = "returned"
       /\ rres[c].kind = "cooldown"
       /\ now - lastRebuildTime >= 5000
       /\ ~isRebuilding

\* invocation c has renamed the live site to the backup directory and has
\* neither renamed the new build into place nor finished rolling back
HoldsBackup(c) ==
    /\ rpc[c] \in {"renameNew", "rbAccess", "rbRename"}
    /\ rhist[c].backedUp

\* C30: the backup deletion scheduled 5 s after a successful swap never
\* removes the backup directory that a later rebuild has created while that
\* rebuild is between its backup rename and its rename into the live path,
\* or is rolling back.
C30_CleanupSparesLaterBackup ==
    [][(Len(timers') < Len(timers) /\ Exists(oldPublicDir) /\ fs'[oldPublicDir] = NoDir)
         => ~(\E c \in Calls : HoldsBackup(c))]_vars
====
